---- MODULE Spec2Model ----
(***************************************************************************)
(* ghostwire: the watcher supervisor's role poller, its jump manager and   *)
(* the packet-filter jump operations, modelled from internal/k8s (poller), *)
(* internal/cmd (watcher) and internal/iptables (jump).                    *)
(*                                                                         *)
(* A hook chain is the sequence of its rules; "J" is the jump to the       *)
(* private chain, "X" is any other rule.  Every executor invocation may    *)
(* fail; which ones fail in one call is the fault record f.                *)
(***************************************************************************)
EXTENDS Integers, Sequences, FiniteSets, TLC

\* ---------------------------------------------------------------- bounds
MaxPolls == 4
MaxHookLen == 2
MaxCalls == 2

\* ------------------------------------------------------- configuration
ActiveValue == "active"
PreviewValue == "preview"
Labels == {"active", "preview", "canary", ""}
ReadError == "<read-error>"
ReadResults == Labels \cup {ReadError}

metricErrorLabelRead == "label_read"
metricErrorLabelIptables == "iptables"
metricErrorChainVerify == "chain_verify"
ErrorKinds == {metricErrorLabelRead, metricErrorLabelIptables, metricErrorChainVerify}

ipv4Binary == "iptables"
ipv6Binary == "ip6tables"

\* which executor invocations of one call fail: the IPv4 probe (c4), the
\* IPv4 insert/delete (m4), the IPv6 probe (c6), the IPv6 insert/delete (m6)
Faults == [c4 : BOOLEAN, m4 : BOOLEAN, c6 : BOOLEAN, m6 : BOOLEAN]
NoFault == [c4 |-> FALSE, m4 |-> FALSE, c6 |-> FALSE, m6 |-> FALSE]
\* without dual-stack no ip6tables invocation is made, so none can fail
FaultsFor(v6) == {f \in Faults : ~v6 => (~f.c6 /\ ~f.m6)}

\* ------------------------------------------------------ kernel / executor
HasJump(rules) == \E i \in 1..Len(rules) : rules[i] = "J"

JumpCount(rules) == Cardinality({i \in 1..Len(rules) : rules[i] = "J"})

FirstJump(rules) == CHOOSE i \in 1..Len(rules) :
                        rules[i] = "J" /\ \A k \in 1..(i - 1) : rules[k] # "J"

\* -D hook -j chain: delete the first rule that matches
DeleteFirstJump(rules) ==
    LET i == FirstJump(rules)
    IN  SubSeq(rules, 1, i - 1) \o SubSeq(rules, i + 1, Len(rules))

\* faulty variant: the delete is positional (-D hook 1)
Run_PositionalDelete(rules, op, fault) ==
    IF fault THEN [rules |-> rules, result |-> "error"]
    ELSE CASE op = "-C" -> [rules |-> rules,
                            result |-> IF HasJump(rules) THEN "ok" ELSE "exit1"]
           [] op = "-I" -> [rules |-> <<"J">> \o rules, result |-> "ok"]
           [] op = "-D" -> IF rules # <<>>
                           THEN [rules |-> Tail(rules), result |-> "ok"]
                           ELSE [rules |-> rules, result |-> "exit1"]

\* One invocation of the administration tool on a hook chain.  The result is
\* "ok" (exit 0), "exit1" (exit code 1) or "error" (any other failure).
Run(rules, op, fault) ==
    IF fault THEN [rules |-> rules, result |-> "error"]
    ELSE CASE op = "-C" -> [rules |-> rules,
                            result |-> IF HasJump(rules) THEN "ok" ELSE "exit1"]
           [] op = "-I" -> [rules |-> <<"J">> \o rules, result |-> "ok"]
           [] op = "-D" -> IF HasJump(rules)
                           THEN [rules |-> DeleteFirstJump(rules), result |-> "ok"]
                           ELSE [rules |-> rules, result |-> "exit1"]

\* faulty variant: every failure of the probe is read as "absent"
jumpExistsWithBinary_ErrorAsAbsent(rules, fault) ==
    LET r == Run(rules, "-C", fault)
    IN  IF r.result = "ok" THEN [exists |-> TRUE, err |-> FALSE]
        ELSE [exists |-> FALSE, err |-> FALSE]

jumpExistsWithBinary(rules, fault) ==
    LET r == Run(rules, "-C", fault)
    IN  IF r.result = "ok" THEN [exists |-> TRUE, err |-> FALSE]
        ELSE IF r.result = "exit1" THEN [exists |-> FALSE, err |-> FALSE]
        ELSE [exists |-> FALSE, err |-> TRUE]

\* cmds: the executor invocations the call made, when it got that far
JumpExists(cancelled, rules, fault) ==
    IF cancelled THEN [exists |-> FALSE, err |-> TRUE, cmds |-> <<>>]
    ELSE LET p == jumpExistsWithBinary(rules, fault)
         IN  [exists |-> p.exists, err |-> p.err, cmds |-> << <<ipv4Binary, "-C">> >>]

\* faulty variant: the insert is made without looking at the probe's answer
AddJump_AlwaysInsert(cancelled, h4, h6, v6, f) ==
    IF cancelled THEN [hook4 |-> h4, hook6 |-> h6, err |-> TRUE, cmds |-> <<>>]
    ELSE
    LET p4 == JumpExists(cancelled, h4, f.c4) IN
    IF p4.err THEN [hook4 |-> h4, hook6 |-> h6, err |-> TRUE, cmds |-> p4.cmds]
    ELSE
    LET i4 == Run(h4, "-I", f.m4)
        c1 == Append(p4.cmds, <<ipv4Binary, "-I">>)
    IN
    IF i4.result # "ok" THEN [hook4 |-> i4.rules, hook6 |-> h6, err |-> TRUE, cmds |-> c1]
    ELSE [hook4 |-> i4.rules, hook6 |-> h6, err |-> FALSE, cmds |-> c1]

\* faulty variant: an IPv6 probe or insert failure is returned to the caller
AddJump_IPv6Fatal(cancelled, h4, h6, v6, f) ==
    IF cancelled THEN [hook4 |-> h4, hook6 |-> h6, err |-> TRUE, cmds |-> <<>>]
    ELSE
    LET p4 == JumpExists(cancelled, h4, f.c4) IN
    IF p4.err THEN [hook4 |-> h4, hook6 |-> h6, err |-> TRUE, cmds |-> p4.cmds]
    ELSE IF p4.exists THEN [hook4 |-> h4, hook6 |-> h6, err |-> FALSE, cmds |-> p4.cmds]
    ELSE
    LET i4 == Run(h4, "-I", f.m4)
        c1 == Append(p4.cmds, <<ipv4Binary, "-I">>)
    IN
    IF i4.result # "ok" THEN [hook4 |-> i4.rules, hook6 |-> h6, err |-> TRUE, cmds |-> c1]
    ELSE IF ~v6 THEN [hook4 |-> i4.rules, hook6 |-> h6, err |-> FALSE, cmds |-> c1]
    ELSE
    LET p6 == jumpExistsWithBinary(h6, f.c6)
        c2 == Append(c1, <<ipv6Binary, "-C">>)
        i6 == Run(h6, "-I", f.m6)
    IN
    IF p6.err THEN [hook4 |-> i4.rules, hook6 |-> h6, err |-> TRUE, cmds |-> c2]
    ELSE IF p6.exists
    THEN [hook4 |-> i4.rules, hook6 |-> h6, err |-> FALSE, cmds |-> c2]
    ELSE [hook4 |-> i4.rules, hook6 |-> i6.rules, err |-> i6.result # "ok",
          cmds |-> Append(c2, <<ipv6Binary, "-I">>)]

AddJump(cancelled, h4, h6, v6, f) ==
    IF cancelled THEN [hook4 |-> h4, hook6 |-> h6, err |-> TRUE, cmds |-> <<>>]
    ELSE
    LET p4 == JumpExists(cancelled, h4, f.c4) IN
    IF p4.err THEN [hook4 |-> h4, hook6 |-> h6, err |-> TRUE, cmds |-> p4.cmds]
    ELSE IF p4.exists THEN [hook4 |-> h4, hook6 |-> h6, err |-> FALSE, cmds |-> p4.cmds]
    ELSE
    LET i4 == Run(h4, "-I", f.m4)
        c1 == Append(p4.cmds, <<ipv4Binary, "-I">>)
    IN
    IF i4.result # "ok" THEN [hook4 |-> i4.rules, hook6 |-> h6, err |-> TRUE, cmds |-> c1]
    ELSE IF ~v6 THEN [hook4 |-> i4.rules, hook6 |-> h6, err |-> FALSE, cmds |-> c1]
    ELSE
    LET p6 == jumpExistsWithBinary(h6, f.c6)
        c2 == Append(c1, <<ipv6Binary, "-C">>)
    IN
    IF ~p6.err /\ p6.exists
    THEN [hook4 |-> i4.rules, hook6 |-> h6, err |-> FALSE, cmds |-> c2]
    ELSE [hook4 |-> i4.rules, hook6 |-> Run(h6, "-I", f.m6).rules, err |-> FALSE,
          cmds |-> Append(c2, <<ipv6Binary, "-I">>)]

\* faulty variant: an absent IPv4 jump ends the call, IPv6 is not looked at
RemoveJump_StopsAtIPv4(cancelled, h4, h6, v6, f) ==
    IF cancelled THEN [hook4 |-> h4, hook6 |-> h6, err |-> TRUE, cmds |-> <<>>]
    ELSE
    LET p4 == JumpExists(cancelled, h4, f.c4) IN
    IF p4.err THEN [hook4 |-> h4, hook6 |-> h6, err |-> TRUE, cmds |-> p4.cmds]
    ELSE IF ~p4.exists THEN [hook4 |-> h4, hook6 |-> h6, err |-> FALSE, cmds |-> p4.cmds]
    ELSE
    LET d4 == Run(h4, "-D", f.m4)
        c1 == Append(p4.cmds, <<ipv4Binary, "-D">>)
    IN
    IF d4.result # "ok" THEN [hook4 |-> d4.rules, hook6 |-> h6, err |-> TRUE, cmds |-> c1]
    ELSE IF ~v6 THEN [hook4 |-> d4.rules, hook6 |-> h6, err |-> FALSE, cmds |-> c1]
    ELSE
    LET p6 == jumpExistsWithBinary(h6, f.c6)
        c2 == Append(c1, <<ipv6Binary, "-C">>)
    IN
    IF p6.err \/ ~p6.exists
    THEN [hook4 |-> d4.rules, hook6 |-> h6, err |-> FALSE, cmds |-> c2]
    ELSE [hook4 |-> d4.rules, hook6 |-> Run(h6, "-D", f.m6).rules, err |-> FALSE,
          cmds |-> Append(c2, <<ipv6Binary, "-D">>)]

RemoveJump(cancelled, h4, h6, v6, f) ==
    IF cancelled THEN [hook4 |-> h4, hook6 |-> h6, err |-> TRUE, cmds |-> <<>>]
    ELSE
    LET p4 == JumpExists(cancelled, h4, f.c4) IN
    IF p4.err THEN [hook4 |-> h4, hook6 |-> h6, err |-> TRUE, cmds |-> p4.cmds]
    ELSE
    LET d4 == IF p4.exists THEN Run(h4, "-D", f.m4) ELSE [rules |-> h4, result |-> "ok"]
        c1 == IF p4.exists THEN Append(p4.cmds, <<ipv4Binary, "-D">>) ELSE p4.cmds
    IN
    IF d4.result # "ok" THEN [hook4 |-> d4.rules, hook6 |-> h6, err |-> TRUE, cmds |-> c1]
    ELSE IF ~v6 THEN [hook4 |-> d4.rules, hook6 |-> h6, err |-> FALSE, cmds |-> c1]
    ELSE
    LET p6 == jumpExistsWithBinary(h6, f.c6)
        c2 == Append(c1, <<ipv6Binary, "-C">>)
    IN
    IF p6.err \/ ~p6.exists
    THEN [hook4 |-> d4.rules, hook6 |-> h6, err |-> FALSE, cmds |-> c2]
    ELSE [hook4 |-> d4.rules, hook6 |-> Run(h6, "-D", f.m6).rules, err |-> FALSE,
          cmds |-> Append(c2, <<ipv6Binary, "-D">>)]

\* ------------------------------------------------------- private chain
\* The private chain of one family: whether it exists and, if so, its rules.
\* A rule is the record of the arguments that follow "-A <chain>".
MaxChainLen == 2

\* a rule an earlier run of the init container appended
StaleRule == [target |-> "DNAT", d |-> "10.9.9.9", p |-> "tcp", dport |-> 9, to |-> "10.9.9.8"]

Missing == [exists |-> FALSE, rules |-> <<>>]

ChainStates ==
    {Missing} \cup {[exists |-> TRUE, rules |-> [i \in 1..n |-> StaleRule]] : n \in 0..MaxChainLen}

\* One invocation of the administration tool on the private chain: list (-L),
\* flush (-F) or create (-N).
RunChain(chain, op, fault) ==
    IF fault THEN [chain |-> chain, result |-> "error"]
    ELSE CASE op = "-L" -> [chain |-> chain,
                            result |-> IF chain.exists THEN "ok" ELSE "exit1"]
           [] op = "-F" -> IF chain.exists
                           THEN [chain |-> [exists |-> TRUE, rules |-> <<>>], result |-> "ok"]
                           ELSE [chain |-> chain, result |-> "exit1"]
           [] op = "-N" -> IF chain.exists
                           THEN [chain |-> chain, result |-> "exit1"]
                           ELSE [chain |-> [exists |-> TRUE, rules |-> <<>>], result |-> "ok"]

chainExists(chain, fault) ==
    LET r == RunChain(chain, "-L", fault)
    IN  IF r.result = "ok" THEN [exists |-> TRUE, err |-> FALSE]
        ELSE IF r.result = "exit1" THEN [exists |-> FALSE, err |-> FALSE]
        ELSE [exists |-> FALSE, err |-> TRUE]

ensureIPv6Chain(cancelled, c6, f) ==
    IF cancelled THEN [chain |-> c6, err |-> TRUE, cmds |-> <<>>]
    ELSE
    LET p == chainExists(c6, f.c6)
        op == IF p.exists THEN "-F" ELSE "-N"
        m == RunChain(c6, op, f.m6)
    IN  IF p.err THEN [chain |-> c6, err |-> TRUE, cmds |-> << <<ipv6Binary, "-L">> >>]
        ELSE [chain |-> m.chain, err |-> m.result # "ok",
              cmds |-> << <<ipv6Binary, "-L">>, <<ipv6Binary, op>> >>]

\* faulty variant: a failure of the IPv6 step is not counted
ipv6Failures_Never(e6) == 0

\* what EnsureChain adds to ipv6ChainFailureCount after ensureIPv6Chain
ipv6Failures(e6) == IF e6.err THEN 1 ELSE 0

\* faulty variant: an existing chain is left as it is
EnsureChain_KeepExisting(cancelled, c4, c6, v6, f) ==
    IF cancelled THEN [chain4 |-> c4, chain6 |-> c6, err |-> TRUE, cmds |-> <<>>,
          v6failures |-> 0]
    ELSE
    LET p4 == chainExists(c4, f.c4)
        c0 == << <<ipv4Binary, "-L">> >>
    IN
    IF p4.err THEN [chain4 |-> c4, chain6 |-> c6, err |-> TRUE, cmds |-> c0,
          v6failures |-> 0]
    ELSE IF p4.exists THEN [chain4 |-> c4, chain6 |-> c6, err |-> FALSE, cmds |-> c0,
          v6failures |-> 0]
    ELSE
    LET m4 == RunChain(c4, "-N", f.m4)
        c1 == Append(c0, <<ipv4Binary, "-N">>)
    IN
    IF m4.result # "ok" THEN [chain4 |-> m4.chain, chain6 |-> c6, err |-> TRUE, cmds |-> c1,
          v6failures |-> 0]
    ELSE IF ~v6 THEN [chain4 |-> m4.chain, chain6 |-> c6, err |-> FALSE, cmds |-> c1,
          v6failures |-> 0]
    ELSE
    LET e6 == ensureIPv6Chain(cancelled, c6, f)
    IN  [chain4 |-> m4.chain, chain6 |-> e6.chain, err |-> FALSE, cmds |-> c1 \o e6.cmds,
         v6failures |-> ipv6Failures(e6)]

\* EnsureChain: an IPv6 failure is counted and logged, never returned
EnsureChain(cancelled, c4, c6, v6, f) ==
    IF cancelled THEN [chain4 |-> c4, chain6 |-> c6, err |-> TRUE, cmds |-> <<>>,
          v6failures |-> 0]
    ELSE
    LET p4 == chainExists(c4, f.c4)
        c0 == << <<ipv4Binary, "-L">> >>
    IN
    IF p4.err THEN [chain4 |-> c4, chain6 |-> c6, err |-> TRUE, cmds |-> c0,
          v6failures |-> 0]
    ELSE
    LET op == IF p4.exists THEN "-F" ELSE "-N"
        m4 == RunChain(c4, op, f.m4)
        c1 == Append(c0, <<ipv4Binary, op>>)
    IN
    IF m4.result # "ok" THEN [chain4 |-> m4.chain, chain6 |-> c6, err |-> TRUE, cmds |-> c1,
          v6failures |-> 0]
    ELSE IF ~v6 THEN [chain4 |-> m4.chain, chain6 |-> c6, err |-> FALSE, cmds |-> c1,
          v6failures |-> 0]
    ELSE
    LET e6 == ensureIPv6Chain(cancelled, c6, f)
    IN  [chain4 |-> m4.chain, chain6 |-> e6.chain, err |-> FALSE, cmds |-> c1 \o e6.cmds,
         v6failures |-> ipv6Failures(e6)]

\* ------------------------------------------------------------ preparer
\* The init container's rule builders.  A rule of the private chain is a
\* record of the arguments that follow "-A <chain>": an exclusion is
\* "-d <cidr> -j RETURN", a DNAT rule is
\* "-d <active> -p <proto> --dport <port> -j DNAT --to-destination <preview>:<port>".
MaxItems == 2

defaultChainName == "CANARY_DNAT"

ExclusionRule(cidr) ==
    [target |-> "RETURN", d |-> cidr, p |-> "", dport |-> 0, to |-> ""]

DNATRule(m) ==
    [target |-> "DNAT", d |-> m.ActiveClusterIP,
     p |-> IF m.Protocol = "TCP" THEN "tcp" ELSE IF m.Protocol = "UDP" THEN "udp" ELSE "sctp",
     dport |-> m.Port, to |-> m.PreviewClusterIP]

\* strings.TrimSpace over the configuration values the model draws
BlankStrings == {"", "   "}
TrimSpace(s) == IF s \in BlankStrings THEN "" ELSE s

\* net.ParseCIDR: the family of the network, or "error"
ParseCIDR(cidr) ==
    CASE cidr \in {"169.254.169.254/32", "10.96.0.10/32"} -> "4"
      [] cidr \in {"fd00::/8"} -> "6"
      [] OTHER -> "error"

CIDRs == {"169.254.169.254/32", "10.96.0.10/32", "fd00::/8", "   ", "not-a-cidr"}

\* isIPv6: the address parses and has no 4-byte form
IPv6Addrs == {"fd00::10", "fd00::20"}
isIPv6(ip) == ip \in IPv6Addrs

\* the mappings Discover can emit for one service port: its IPs are
\* non-empty and differ, its port is positive
Mappings ==
    [ServiceName : {"orders"}, Port : {80}, Protocol : {"TCP"},
     ActiveClusterIP : {"10.0.0.10", "fd00::10"},
     PreviewClusterIP : {"10.0.1.10", "fd00::20"}]

\* faulty variant: the rule is inserted at the head of the chain (-I)
RunAppend_Insert(chain, rule, fault) ==
    IF fault \/ ~chain.exists THEN [chain |-> chain, err |-> TRUE]
    ELSE [chain |-> [exists |-> TRUE, rules |-> <<rule>> \o chain.rules], err |-> FALSE]

\* executor.Run of "-A <chain> <rule>": fails when the tool fails or the
\* chain does not exist
RunAppend(chain, rule, fault) ==
    IF fault \/ ~chain.exists THEN [chain |-> chain, err |-> TRUE]
    ELSE [chain |-> [exists |-> TRUE, rules |-> Append(chain.rules, rule)], err |-> FALSE]

\* AddExclusions from the i-th CIDR on; failAt is the position, among the
\* tool invocations of this call, of the one that fails (0: none)
RECURSIVE exclusionsFrom(_, _, _, _, _, _, _, _)
exclusionsFrom(i, cancelled, c4, c6, cidrs, v6, failAt, cmds) ==
    IF i > Len(cidrs) THEN [chain4 |-> c4, chain6 |-> c6, err |-> FALSE, cmds |-> cmds]
    ELSE IF cancelled THEN [chain4 |-> c4, chain6 |-> c6, err |-> TRUE, cmds |-> cmds]
    ELSE
    LET cidr == TrimSpace(cidrs[i])
    IN
    IF cidr = "" THEN exclusionsFrom(i + 1, cancelled, c4, c6, cidrs, v6, failAt, cmds)
    ELSE IF ParseCIDR(cidr) = "error"
    THEN [chain4 |-> c4, chain6 |-> c6, err |-> TRUE, cmds |-> cmds]
    ELSE IF ParseCIDR(cidr) = "4"
    THEN LET r == RunAppend(c4, ExclusionRule(cidr), failAt = Len(cmds) + 1)
             c == Append(cmds, <<ipv4Binary, "-A", ExclusionRule(cidr)>>)
         IN  IF r.err THEN [chain4 |-> c4, chain6 |-> c6, err |-> TRUE, cmds |-> c]
             ELSE exclusionsFrom(i + 1, cancelled, r.chain, c6, cidrs, v6, failAt, c)
    ELSE IF ~v6 THEN exclusionsFrom(i + 1, cancelled, c4, c6, cidrs, v6, failAt, cmds)
    ELSE LET r == RunAppend(c6, ExclusionRule(cidr), failAt = Len(cmds) + 1)
             c == Append(cmds, <<ipv6Binary, "-A", ExclusionRule(cidr)>>)
         IN  IF r.err THEN [chain4 |-> c4, chain6 |-> c6, err |-> TRUE, cmds |-> c]
             ELSE exclusionsFrom(i + 1, cancelled, c4, r.chain, cidrs, v6, failAt, c)

AddExclusions(cancelled, c4, c6, cidrs, v6, failAt) ==
    exclusionsFrom(1, cancelled, c4, c6, cidrs, v6, failAt, <<>>)

\* AddDNATRules from the i-th mapping on
RECURSIVE dnatRulesFrom(_, _, _, _, _, _, _, _, _)
dnatRulesFrom(i, cancelled, c4, c6, ms, v6, failAt, cmds, added) ==
    IF i > Len(ms)
    THEN [chain4 |-> c4, chain6 |-> c6, added |-> added, err |-> FALSE, cmds |-> cmds]
    ELSE IF cancelled
    THEN [chain4 |-> c4, chain6 |-> c6, added |-> added, err |-> TRUE, cmds |-> cmds]
    ELSE
    LET m == ms[i]
        useIPv6 == isIPv6(m.ActiveClusterIP)
        bin == IF useIPv6 THEN ipv6Binary ELSE ipv4Binary
        r == RunAppend(IF useIPv6 THEN c6 ELSE c4, DNATRule(m), failAt = Len(cmds) + 1)
        c == Append(cmds, <<bin, "-A", DNATRule(m)>>)
    IN
    IF m.ActiveClusterIP = "" \/ m.PreviewClusterIP = "" \/ m.Port = 0
    THEN dnatRulesFrom(i + 1, cancelled, c4, c6, ms, v6, failAt, cmds, added)
    ELSE IF isIPv6(m.ActiveClusterIP) # isIPv6(m.PreviewClusterIP)
    THEN dnatRulesFrom(i + 1, cancelled, c4, c6, ms, v6, failAt, cmds, added)
    ELSE IF useIPv6 /\ ~v6
    THEN dnatRulesFrom(i + 1, cancelled, c4, c6, ms, v6, failAt, cmds, added)
    ELSE IF r.err
    THEN [chain4 |-> c4, chain6 |-> c6, added |-> added, err |-> TRUE, cmds |-> c]
    ELSE IF useIPv6
    THEN dnatRulesFrom(i + 1, cancelled, c4, r.chain, ms, v6, failAt, c, added + 1)
    ELSE dnatRulesFrom(i + 1, cancelled, r.chain, c6, ms, v6, failAt, c, added + 1)

\* faulty variant: the count is the number of mappings
AddDNATRules_CountsAll(cancelled, c4, c6, ms, v6, failAt) ==
    [dnatRulesFrom(1, cancelled, c4, c6, ms, v6, failAt, <<>>, 0) EXCEPT !.added = Len(ms)]

AddDNATRules(cancelled, c4, c6, ms, v6, failAt) ==
    dnatRulesFrom(1, cancelled, c4, c6, ms, v6, failAt, <<>>, 0)

\* ------------------------------------------------------------ audit file
\* The audit file is a sequence of lines, a line a sequence of the pieces
\* the writer formats into it.
NoFile == [exists |-> FALSE, lines |-> <<>>]

AuditPath == "/shared/dnat.map"
TraversalPath == "../dnat.map"

AuditHeader ==
    << <<"#", " DNAT mappings generated by ghostwire-init">>,
       <<"#", " Format: service:port/protocol active_ip -> preview_ip">> >>

AuditLine(m) ==
    <<m.ServiceName, ":", ToString(m.Port), "/", m.Protocol, " ",
      m.ActiveClusterIP, " -> ", m.PreviewClusterIP>>

\* the file an earlier run of the init container wrote for one mapping
StaleFile ==
    [exists |-> TRUE,
     lines |-> Append(AuditHeader, <<"stale", ":", "9", "/", "TCP", " ", "10.9.9.9", " -> ", "10.9.9.8">>)]

\* WriteDNATMap: the path is checked for "..", the file is created or
\* truncated, then the header and one line per mapping are written
WriteDNATMap(path, ms, file, fault) ==
    IF path = TraversalPath THEN [file |-> file, err |-> TRUE]
    ELSE IF fault THEN [file |-> file, err |-> TRUE]
    ELSE [file |-> [exists |-> TRUE,
                    lines |-> AuditHeader \o [i \in 1..Len(ms) |-> AuditLine(ms[i])]],
          err |-> FALSE]

\* strings.TrimSpace of a line: leading and trailing blank pieces go
BlankPieces == {"", " ", "\t"}
RECURSIVE TrimLeft(_)
TrimLeft(line) ==
    IF line # <<>> /\ Head(line) \in BlankPieces THEN TrimLeft(Tail(line)) ELSE line
RECURSIVE TrimRight(_)
TrimRight(line) ==
    IF line # <<>> /\ line[Len(line)] \in BlankPieces
    THEN TrimRight(SubSeq(line, 1, Len(line) - 1)) ELSE line
TrimLine(line) == TrimRight(TrimLeft(line))

isMappingLine(line) == TrimLine(line) # <<>> /\ Head(TrimLine(line)) # "#"

\* faulty variant: comment lines are counted too
CountDNATMappings_CountsComments(path, file) ==
    IF TrimSpace(path) = "" THEN [count |-> 0, err |-> FALSE]
    ELSE IF path = TraversalPath THEN [count |-> 0, err |-> TRUE]
    ELSE IF ~file.exists THEN [count |-> 0, err |-> FALSE]
    ELSE [count |-> Cardinality({i \in 1..Len(file.lines) : TrimLine(file.lines[i]) # <<>>}),
          err |-> FALSE]

\* CountDNATMappings: the lines that are neither blank nor comments
CountDNATMappings(path, file) ==
    IF TrimSpace(path) = "" THEN [count |-> 0, err |-> FALSE]
    ELSE IF path = TraversalPath THEN [count |-> 0, err |-> TRUE]
    ELSE IF ~file.exists THEN [count |-> 0, err |-> FALSE]
    ELSE [count |-> Cardinality({i \in 1..Len(file.lines) : isMappingLine(file.lines[i])}),
          err |-> FALSE]

\* ------------------------------------------------------------ discovery
\* A service name is the sequence of the pieces the pairing rules handle: a
\* base name followed by suffixes.
MaxServices == 2

PlaceholderName == "{{name}}"
DefaultPreviewPattern == <<PlaceholderName, "-preview">>
ClusterIPNone == "None"

HasSuffix(name, suffix) == name # <<>> /\ name[Len(name)] = suffix
TrimSuffix(name, suffix) ==
    IF HasSuffix(name, suffix) THEN SubSeq(name, 1, Len(name) - 1) ELSE name

\* ApplyPattern: the pattern with every placeholder replaced by the name
RECURSIVE ApplyPattern(_, _)
ApplyPattern(pattern, serviceName) ==
    IF pattern = <<>> THEN <<>>
    ELSE (IF Head(pattern) = PlaceholderName THEN serviceName ELSE <<Head(pattern)>>)
         \o ApplyPattern(Tail(pattern), serviceName)

DerivePreviewName(name, activeSuffix, previewSuffix, pattern) ==
    IF activeSuffix # "" /\ previewSuffix # "" /\ HasSuffix(name, activeSuffix)
    THEN Append(TrimSuffix(name, activeSuffix), previewSuffix)
    ELSE ApplyPattern(pattern, name)

clusterIP(svc) == IF Len(svc.ClusterIPs) > 0 THEN svc.ClusterIPs[1] ELSE svc.ClusterIP

isValidClusterIP(ip) == ~(ip = "" \/ ip = ClusterIPNone)

\* serviceMap[name]: the last listed service of that name
HasService(services, name) == \E i \in 1..Len(services) : services[i].Name = name
ServiceNamed(services, name) ==
    services[CHOOSE i \in 1..Len(services) :
                 /\ services[i].Name = name
                 /\ \A j \in (i + 1)..Len(services) : services[j].Name # name]

\* buildNumericPortMap and the lookup by numericPortKey
HasPort(ports, port) ==
    \E i \in 1..Len(ports) : ports[i].Port = port.Port /\ ports[i].Protocol = port.Protocol
PortKeyed(ports, port) ==
    ports[CHOOSE i \in 1..Len(ports) :
              /\ ports[i].Port = port.Port /\ ports[i].Protocol = port.Protocol
              /\ \A j \in (i + 1)..Len(ports) :
                    ~(ports[j].Port = port.Port /\ ports[j].Protocol = port.Protocol)]

\* the mappings of one base service and its preview service, port by port
RECURSIVE portMappings(_, _, _)
portMappings(svc, previewSvc, i) ==
    IF i > Len(svc.Ports) THEN <<>>
    ELSE
    LET port == svc.Ports[i]
    IN
    IF ~HasPort(previewSvc.Ports, port) THEN portMappings(svc, previewSvc, i + 1)
    ELSE IF port.Protocol # PortKeyed(previewSvc.Ports, port).Protocol
    THEN portMappings(svc, previewSvc, i + 1)
    ELSE << [ServiceName |-> svc.Name, Port |-> port.Port, Protocol |-> port.Protocol,
             ActiveClusterIP |-> clusterIP(svc),
             PreviewClusterIP |-> clusterIP(previewSvc)] >>
         \o portMappings(svc, previewSvc, i + 1)

\* the body of Discover's loop for one listed service
serviceMappings(cfg, services, svc) ==
    LET previewName == DerivePreviewName(svc.Name, cfg.ActiveSuffix, cfg.PreviewSuffix,
                                         cfg.PreviewPattern)
    IN
    IF /\ cfg.PreviewPattern = DefaultPreviewPattern
       /\ cfg.PreviewSuffix = "-preview"
       /\ HasSuffix(svc.Name, cfg.PreviewSuffix)
    THEN <<>>
    ELSE IF ~HasService(services, previewName) THEN <<>>
    ELSE IF ~isValidClusterIP(clusterIP(svc)) THEN <<>>
    ELSE IF ~isValidClusterIP(clusterIP(ServiceNamed(services, previewName))) THEN <<>>
    ELSE IF clusterIP(svc) = clusterIP(ServiceNamed(services, previewName)) THEN <<>>
    ELSE IF Len(svc.Ports) = 0 THEN <<>>
    ELSE portMappings(svc, ServiceNamed(services, previewName), 1)

RECURSIVE discoverFrom(_, _, _)
discoverFrom(cfg, services, i) ==
    IF i > Len(services) THEN <<>>
    ELSE serviceMappings(cfg, services, services[i]) \o discoverFrom(cfg, services, i + 1)

\* Discover: the configuration is checked, the services are listed
\* (listFails: the API call fails), then paired in list order
Discover(cfg, services, listFails) ==
    IF cfg.Namespace = "" \/ cfg.PreviewPattern = <<>> \/ listFails
    THEN [mappings |-> <<>>, err |-> TRUE]
    ELSE [mappings |-> discoverFrom(cfg, services, 1), err |-> FALSE]

\* ------------------------------------------------------------- metrics
\* faulty variant: the gauge is set and never cleared
SetJumpActive_NeverCleared(active) == 1

SetJumpActive(active) == IF active THEN 1 ELSE 0

IncrementError(errs, kind) == [errs EXCEPT ![kind] = @ + 1]

\* -------------------------------------------------------------- health
\* faulty variant: one readiness flag is enough
HealthzStatus_EitherFlag(cv, lr) == IF cv \/ lr THEN 200 ELSE 503

\* HealthChecker.Handler: the status written for the flags read under the lock
HealthzStatus(cv, lr) == IF cv /\ lr THEN 200 ELSE 503

\* faulty variant: a missing chain is not told apart from a verified one
verifyChain_MissingIsVerified(chain, fault, errs) ==
    LET p == chainExists(chain, fault)
    IN  IF p.err
        THEN [verified |-> FALSE, errs |-> IncrementError(errs, metricErrorChainVerify)]
        ELSE [verified |-> TRUE, errs |-> errs]

\* WatcherCmd.RunE: the one probe of the private chain at startup
verifyChain(chain, fault, errs) ==
    LET p == chainExists(chain, fault)
    IN  IF p.err
        THEN [verified |-> FALSE, errs |-> IncrementError(errs, metricErrorChainVerify)]
        ELSE IF ~p.exists
        THEN [verified |-> FALSE, errs |-> IncrementError(errs, metricErrorChainVerify)]
        ELSE [verified |-> TRUE, errs |-> errs]

\* --------------------------------------------------------- jump manager
\* faulty variant: the gauge is updated before the controller call's error is looked at
OnTransition_GaugeDespiteError(cancelled, previous, current, h4, h6, v6, gauge, errs, f) ==
    IF current = PreviewValue \/ current = ActiveValue THEN
        LET r == IF current = PreviewValue THEN AddJump(cancelled, h4, h6, v6, f)
                                           ELSE RemoveJump(cancelled, h4, h6, v6, f)
        IN  [hook4 |-> r.hook4, hook6 |-> r.hook6,
             gauge |-> SetJumpActive(current = PreviewValue),
             errs |-> IF r.err THEN IncrementError(errs, metricErrorLabelIptables) ELSE errs,
             err |-> r.err, cmds |-> r.cmds,
             op |-> IF current = PreviewValue THEN "add" ELSE "remove"]
    ELSE [hook4 |-> h4, hook6 |-> h6, gauge |-> gauge, errs |-> errs,
          err |-> FALSE, cmds |-> <<>>, op |-> "none"]

\* jumpManager.OnTransition: op names the controller call it made
OnTransition(cancelled, previous, current, h4, h6, v6, gauge, errs, f) ==
    IF current = PreviewValue THEN
        LET r == AddJump(cancelled, h4, h6, v6, f) IN
        IF r.err
        THEN [hook4 |-> r.hook4, hook6 |-> r.hook6, gauge |-> gauge,
              errs |-> IncrementError(errs, metricErrorLabelIptables),
              err |-> TRUE, cmds |-> r.cmds, op |-> "add"]
        ELSE [hook4 |-> r.hook4, hook6 |-> r.hook6, gauge |-> SetJumpActive(TRUE),
              errs |-> errs, err |-> FALSE, cmds |-> r.cmds, op |-> "add"]
    ELSE IF current = ActiveValue THEN
        LET r == RemoveJump(cancelled, h4, h6, v6, f) IN
        IF r.err
        THEN [hook4 |-> r.hook4, hook6 |-> r.hook6, gauge |-> gauge,
              errs |-> IncrementError(errs, metricErrorLabelIptables),
              err |-> TRUE, cmds |-> r.cmds, op |-> "remove"]
        ELSE [hook4 |-> r.hook4, hook6 |-> r.hook6, gauge |-> SetJumpActive(FALSE),
              errs |-> errs, err |-> FALSE, cmds |-> r.cmds, op |-> "remove"]
    ELSE [hook4 |-> h4, hook6 |-> h6, gauge |-> gauge, errs |-> errs,
          err |-> FALSE, cmds |-> <<>>, op |-> "none"]

\* --------------------------------------------------------------- poller
isRecognizedRole(role) == role = ActiveValue \/ role = PreviewValue

\* faulty variant: previous is read from lastRole after the update
pollOnce_PreviousAfterUpdate(last, observed, labelValue) ==
    IF ~observed
    THEN [lastRole |-> labelValue, observedRole |-> TRUE,
          invoke |-> isRecognizedRole(labelValue), previous |-> ""]
    ELSE IF last = labelValue
    THEN [lastRole |-> last, observedRole |-> observed, invoke |-> FALSE, previous |-> last]
    ELSE [lastRole |-> labelValue, observedRole |-> observed,
          invoke |-> isRecognizedRole(last) /\ isRecognizedRole(labelValue),
          previous |-> labelValue]

\* faulty variant: a change is a transition as soon as the new value is recognized
pollOnce_CurrentOnly(last, observed, labelValue) ==
    IF ~observed
    THEN [lastRole |-> labelValue, observedRole |-> TRUE,
          invoke |-> isRecognizedRole(labelValue), previous |-> ""]
    ELSE IF last = labelValue
    THEN [lastRole |-> last, observedRole |-> observed, invoke |-> FALSE, previous |-> last]
    ELSE [lastRole |-> labelValue, observedRole |-> observed,
          invoke |-> isRecognizedRole(labelValue), previous |-> last]

\* faulty variant: the first observation is recorded without a handler call
pollOnce_SilentFirst(last, observed, labelValue) ==
    IF ~observed
    THEN [lastRole |-> labelValue, observedRole |-> TRUE, invoke |-> FALSE, previous |-> ""]
    ELSE IF last = labelValue
    THEN [lastRole |-> last, observedRole |-> observed, invoke |-> FALSE, previous |-> last]
    ELSE [lastRole |-> labelValue, observedRole |-> observed,
          invoke |-> isRecognizedRole(last) /\ isRecognizedRole(labelValue),
          previous |-> last]

\* faulty variant: an unchanged recognized value invokes the handler again
pollOnce_Reinvoke(last, observed, labelValue) ==
    IF ~observed
    THEN [lastRole |-> labelValue, observedRole |-> TRUE,
          invoke |-> isRecognizedRole(labelValue), previous |-> ""]
    ELSE IF last = labelValue
    THEN [lastRole |-> last, observedRole |-> observed,
          invoke |-> isRecognizedRole(labelValue), previous |-> last]
    ELSE [lastRole |-> labelValue, observedRole |-> observed,
          invoke |-> isRecognizedRole(last) /\ isRecognizedRole(labelValue),
          previous |-> last]

\* Poller.pollOnce after a successful read: the critical section and the
\* decision whether, and with which previous value, the handler is invoked
pollOnce(last, observed, labelValue) ==
    LET previousValue == last
        previousRecognized == isRecognizedRole(previousValue)
        currentRecognized == isRecognizedRole(labelValue)
        firstObservation == ~observed
    IN  IF firstObservation
        THEN [lastRole |-> labelValue, observedRole |-> TRUE,
              invoke |-> currentRecognized, previous |-> ""]
        ELSE IF previousValue = labelValue
        THEN [lastRole |-> last, observedRole |-> observed,
              invoke |-> FALSE, previous |-> previousValue]
        ELSE [lastRole |-> labelValue, observedRole |-> observed,
              invoke |-> previousRecognized /\ currentRecognized,
              previous |-> previousValue]

\* faulty variant: a handler error ends the loop
afterHandler_StopOnError(err) == IF err THEN "done" ELSE "select"

\* a handler error is only logged: pollOnce returns and Run goes on selecting
afterHandler(err) == "select"

\* faulty variant: a failed read is counted but handed on as an absent label
GetLabel_ErrorAsAbsent(r, errs, lr) ==
    IF r = ReadError
    THEN [value |-> "", err |-> FALSE,
          errs |-> IncrementError(errs, metricErrorLabelRead), labelsRead |-> lr]
    ELSE [value |-> r, err |-> FALSE, errs |-> errs, labelsRead |-> TRUE]

\* faulty variant: a failed read takes the labels-read flag back
GetLabel_ClearsOnError(r, errs, lr) ==
    IF r = ReadError
    THEN [value |-> "", err |-> TRUE,
          errs |-> IncrementError(errs, metricErrorLabelRead), labelsRead |-> FALSE]
    ELSE [value |-> r, err |-> FALSE, errs |-> errs, labelsRead |-> TRUE]

\* faulty variant: only a non-empty value counts as a read of the labels
GetLabel_NonEmptyOnly(r, errs, lr) ==
    IF r = ReadError
    THEN [value |-> "", err |-> TRUE,
          errs |-> IncrementError(errs, metricErrorLabelRead), labelsRead |-> lr]
    ELSE [value |-> r, err |-> FALSE, errs |-> errs, labelsRead |-> (lr \/ r # "")]

\* wrapped label reader: metricsLabelReader.GetLabel over the delegate's result
GetLabel(r, errs, lr) ==
    IF r = ReadError
    THEN [value |-> "", err |-> TRUE,
          errs |-> IncrementError(errs, metricErrorLabelRead), labelsRead |-> lr]
    ELSE [value |-> r, err |-> FALSE, errs |-> errs, labelsRead |-> TRUE]

\* ---------------------------------------------------------------- state
VARIABLES
    ipv6,          \* jumpManager.ipv6 (GW_IPV6)
    hook4,         \* rules of the hook chain, IPv4 nat table
    hook6,         \* rules of the hook chain, IPv6 nat table
    lastRole,      \* Poller.lastRole
    observedRole,  \* Poller.observedRole
    pc,            \* Poller.Run position: "run", "select", "handler", "done"
    pending,       \* pollOnce's locals between the unlock and the handler call
    jumpState,     \* Metrics.jumpState gauge
    errorsTotal,   \* Metrics.errorsTotal counter vector
    chainVerified, \* HealthChecker.chainVerified
    labelsRead,    \* HealthChecker.labelsRead
    ctxCancelled,  \* the supervisor's context has been cancelled
    polls,         \* number of pollOnce calls started
    lastRead,      \* what the delegate reader returned to the latest poll
    nCalls,        \* number of OnTransition invocations
    nChanges,      \* number of polls that changed lastRole
    lastCall,      \* the most recent OnTransition invocation and its outcome
    script,        \* label reads the reader is scripted to deliver (<<>>: any)
    trace,         \* per scripted poll: the read, the controller call, the gauge
    chain4,        \* the private chain, IPv4 nat table
    chain6,        \* the private chain, IPv6 nat table
    health,        \* the /healthz requests, in order of arrival
    lastFault,     \* which executor invocations failed in the latest direct call
    cfg,           \* the init container's iptables.Config
    mappings,      \* the mappings Discover returned
    auditFile,     \* the audit file on the shared volume
    run,           \* the current run of Setup: position, error, commands issued
    runs,          \* the completed runs of Setup, oldest first
    services,      \* the services the API server lists in the namespace
    dnatCount,     \* Metrics.dnatRules gauge
    discovery,     \* the latest call of Discover: its configuration and its error
    ipv6ChainFailureCount, \* the iptables package's process-wide counter
    life           \* the supervisor's lifecycle: goroutines, channels, position

vars == <<ipv6, hook4, hook6, lastRole, observedRole, pc, pending, jumpState,
          errorsTotal, chainVerified, labelsRead, ctxCancelled, polls, lastRead,
          nCalls, nChanges, lastCall, script, trace, chain4, chain6, health, lastFault,
          cfg, mappings, auditFile, run, runs, services, dnatCount, discovery,
          ipv6ChainFailureCount, life>>

NoPending == [invoke |-> FALSE, previous |-> "", current |-> ""]
NoCall == [previous |-> "", current |-> "", err |-> FALSE, cmds |-> <<>>, op |-> "none"]

\* the private chain as the init container leaves it
Populated == [exists |-> TRUE, rules |-> <<StaleRule>>]

\* state the supervisor's poller and jump manager never touch
\* the init container's state
prepRest == <<cfg, mappings, auditFile, run, runs, services, dnatCount, discovery>>
prepVars == <<prepRest, ipv6ChainFailureCount>>

NoConfig == [ChainName |-> defaultChainName, ExcludeCIDRs |-> <<>>, IPv6 |-> FALSE,
             DnatMapPath |-> ""]
NoRun == [pc |-> "ensure", err |-> "", steps |-> <<>>, cmds |-> <<>>, added |-> 0,
          v6err |-> FALSE]
NoLife == [sup |-> "none"]
NoDiscovery == [called |-> FALSE, err |-> FALSE,
                cfg |-> [Namespace |-> "", PreviewPattern |-> <<>>, ActiveSuffix |-> "",
                         PreviewSuffix |-> ""]]

\* the init container is out of the picture
NoPreparer ==
    /\ cfg = NoConfig
    /\ mappings = <<>>
    /\ auditFile = NoFile
    /\ run = NoRun
    /\ runs = <<>>
    /\ services = <<>>
    /\ dnatCount = 0
    /\ discovery = NoDiscovery
    /\ ipv6ChainFailureCount = 0

kernelAux == <<chain4, chain6, health, lastFault, prepVars, life>>

\* the context and the failing tool invocations of one direct call; a
\* cancelled context makes no tool invocation, so none can fail
CallArgs == {a \in [cancelled : BOOLEAN, f : FaultsFor(ipv6)] : a.cancelled => a.f = NoFault}

HookStates == {h \in UNION {[1..n -> {"J", "X"}] : n \in 0..MaxHookLen} : JumpCount(h) <= 1}

\* WatcherCmd.RunE up to the start of the goroutines: the chain probe sets
\* chain-verified or counts chain_verify; the poller starts with no observation
Wiring ==
    /\ ipv6 \in BOOLEAN
    /\ hook4 \in HookStates
    /\ hook6 \in HookStates
    /\ lastRole = ""
    /\ observedRole = FALSE
    /\ pc = "run"
    /\ pending = NoPending
    /\ chainVerified \in BOOLEAN
    /\ errorsTotal = [k \in ErrorKinds |->
                        IF k = metricErrorChainVerify /\ ~chainVerified THEN 1 ELSE 0]
    /\ labelsRead = FALSE
    /\ ctxCancelled = FALSE
    /\ polls = 0
    /\ lastRead = ""
    /\ nCalls = 0
    /\ nChanges = 0
    /\ lastCall = NoCall
    /\ trace = <<>>
    /\ NoPreparer
    /\ chain4 = Populated
    /\ chain6 = Populated
    /\ health = <<>>
    /\ lastFault = NoFault

Init ==
    /\ Wiring
    /\ life = NoLife
    /\ jumpState = SetJumpActive(FALSE)
    /\ script = <<>>

Record(entry) == IF script = <<>> THEN trace ELSE Append(trace, entry)

\* pollOnce from the label read to the unlock (or to the return, when the
\* read failed or no handler call follows)
pollBody(r) ==
    \E g \in {GetLabel(r, errorsTotal, labelsRead)} :
    /\ errorsTotal' = g.errs
    /\ labelsRead' = g.labelsRead
    /\ polls' = polls + 1
    /\ lastRead' = r
    /\ IF g.err
       THEN /\ UNCHANGED <<lastRole, observedRole, nChanges>>
            /\ pending' = NoPending
            /\ pc' = "select"
            /\ trace' = Record([read |-> r, op |-> "none", err |-> FALSE,
                                faulted |-> FALSE, gauge |-> jumpState])
       ELSE \E d \in {pollOnce(lastRole, observedRole, g.value)} :
            /\ lastRole' = d.lastRole
            /\ observedRole' = d.observedRole
            /\ nChanges' = IF d.lastRole # lastRole THEN nChanges + 1 ELSE nChanges
            /\ pending' = IF d.invoke
                          THEN [invoke |-> TRUE, previous |-> d.previous, current |-> g.value]
                          ELSE NoPending
            /\ pc' = IF d.invoke THEN "handler" ELSE "select"
            /\ trace' = IF d.invoke THEN trace
                        ELSE Record([read |-> r, op |-> "none", err |-> FALSE,
                                     faulted |-> FALSE, gauge |-> jumpState])
    /\ UNCHANGED <<ipv6, hook4, hook6, jumpState, chainVerified, ctxCancelled,
                   nCalls, lastCall, script>>

PollStep(r) ==
    /\ pollBody(r)
    /\ UNCHANGED kernelAux

\* Poller.Run: the initial poll, or a tick taken by the select.  A read on a
\* cancelled context fails.
PollRead ==
    /\ pc \in {"run", "select"}
    /\ polls < MaxPolls
    /\ \E r \in ReadResults :
         /\ ctxCancelled => r = ReadError
         /\ PollStep(r)

\* pollOnce from the handler call to its return
Handle ==
    /\ pc = "handler"
    /\ \E f \in IF ctxCancelled THEN {NoFault} ELSE FaultsFor(ipv6) :
         \E r \in {OnTransition(ctxCancelled, pending.previous, pending.current,
                                hook4, hook6, ipv6, jumpState, errorsTotal, f)} :
             /\ hook4' = r.hook4
             /\ hook6' = r.hook6
             /\ jumpState' = r.gauge
             /\ errorsTotal' = r.errs
             /\ lastCall' = [previous |-> pending.previous, current |-> pending.current,
                             err |-> r.err, cmds |-> r.cmds, op |-> r.op]
             /\ trace' = Record([read |-> pending.current, op |-> r.op, err |-> r.err,
                                 faulted |-> (f # NoFault), gauge |-> r.gauge])
             /\ pc' = afterHandler(r.err)
    /\ nCalls' = nCalls + 1
    /\ pending' = NoPending
    /\ UNCHANGED <<ipv6, lastRole, observedRole, chainVerified, labelsRead,
                   ctxCancelled, polls, lastRead, nChanges, script>>
    /\ UNCHANGED kernelAux

\* a termination signal or a server error makes the supervisor cancel the context
Cancel ==
    /\ ~ctxCancelled
    /\ pc # "done"
    /\ ctxCancelled' = TRUE
    /\ UNCHANGED <<ipv6, hook4, hook6, lastRole, observedRole, pc, pending, jumpState,
                   errorsTotal, chainVerified, labelsRead, polls, lastRead, nCalls,
                   nChanges, lastCall, script, trace>>
    /\ UNCHANGED kernelAux

\* Poller.Run: the select takes ctx.Done
Stop ==
    /\ pc = "select"
    /\ ctxCancelled
    /\ pc' = "done"
    /\ UNCHANGED <<ipv6, hook4, hook6, lastRole, observedRole, pending, jumpState,
                   errorsTotal, chainVerified, labelsRead, ctxCancelled, polls, lastRead,
                   nCalls, nChanges, lastCall, script, trace>>
    /\ UNCHANGED kernelAux

Next == PollRead \/ Handle \/ Cancel \/ Stop

Spec == Init /\ [][Next]_vars

\* ------------------------------------------------ scripted label reader
\* The supervisor over a reader that delivers a fixed sequence of results, as
\* the poller's table tests and the end-to-end scenarios do; no signal arrives.
ScriptLen == 3

Scenario5 == <<"active", "active", "preview", "preview", "active">>
Scenario6 == <<"active", ReadError, "preview">>

Scripts == [1..ScriptLen -> ReadResults] \cup {Scenario5, Scenario6}

ScenarioInit ==
    /\ Wiring
    /\ life = NoLife
    /\ jumpState = SetJumpActive(FALSE)
    /\ script \in Scripts

PollScripted ==
    /\ pc \in {"run", "select"}
    /\ polls < Len(script)
    /\ PollStep(script[polls + 1])

ScenarioNext == PollScripted \/ Handle

ScenarioSpec == ScenarioInit /\ [][ScenarioNext]_vars

\* ------------------------------------------- jump manager called directly
\* OnTransition invoked with any previous/current pair, on any gauge value and
\* with a live or a cancelled context, as the jump manager's table test does.
OpInit ==
    /\ Wiring
    /\ life = NoLife
    /\ jumpState \in {0, 1}
    /\ script = <<>>

CallOnTransition ==
    /\ nCalls < MaxCalls
    /\ \E previous \in Labels, current \in Labels, a \in CallArgs :
         \E r \in {OnTransition(a.cancelled, previous, current,
                                hook4, hook6, ipv6, jumpState, errorsTotal, a.f)} :
             /\ hook4' = r.hook4
             /\ hook6' = r.hook6
             /\ jumpState' = r.gauge
             /\ errorsTotal' = r.errs
             /\ lastCall' = [previous |-> previous, current |-> current,
                             err |-> r.err, cmds |-> r.cmds, op |-> r.op]
    /\ nCalls' = nCalls + 1
    /\ UNCHANGED <<ipv6, lastRole, observedRole, pc, pending, chainVerified, labelsRead,
                   ctxCancelled, polls, lastRead, nChanges, script, trace>>
    /\ UNCHANGED kernelAux

OpNext == CallOnTransition

OpSpec == OpInit /\ [][OpNext]_vars

\* ------------------------------------------- controller called directly
\* AddJump, RemoveJump and EnsureChain called one after the other on any hook
\* and private chain, with a live or a cancelled context and any pattern of
\* failing tool invocations, as the package's tests do over their executor.
CtlInit ==
    /\ ipv6 \in BOOLEAN
    /\ hook4 \in HookStates
    /\ hook6 \in HookStates
    /\ chain4 \in ChainStates
    /\ chain6 \in IF ipv6 THEN {Missing, Populated} ELSE {Missing}
    /\ lastRole = ""
    /\ observedRole = FALSE
    /\ pc = "run"
    /\ pending = NoPending
    /\ jumpState = SetJumpActive(FALSE)
    /\ errorsTotal = [k \in ErrorKinds |-> 0]
    /\ chainVerified = FALSE
    /\ labelsRead = FALSE
    /\ ctxCancelled = FALSE
    /\ polls = 0
    /\ lastRead = ""
    /\ nCalls = 0
    /\ nChanges = 0
    /\ lastCall = NoCall
    /\ script = <<>>
    /\ trace = <<>>
    /\ health = <<>>
    /\ lastFault = NoFault
    /\ NoPreparer
    /\ life = NoLife

DirectCall(op, r, f) ==
    /\ nCalls' = nCalls + 1
    /\ lastCall' = [previous |-> "", current |-> "", err |-> r.err, cmds |-> r.cmds,
                    op |-> op]
    /\ lastFault' = f
    /\ UNCHANGED <<ipv6, lastRole, observedRole, pc, pending, jumpState, errorsTotal,
                   chainVerified, labelsRead, ctxCancelled, polls, lastRead, nChanges,
                   script, trace, health>>
    /\ UNCHANGED <<prepRest, life>>

CallAddJump ==
    /\ nCalls < MaxCalls
    /\ \E a \in CallArgs :
         \E r \in {AddJump(a.cancelled, hook4, hook6, ipv6, a.f)} :
             /\ hook4' = r.hook4
             /\ hook6' = r.hook6
             /\ UNCHANGED <<chain4, chain6, ipv6ChainFailureCount>>
             /\ DirectCall("add", r, a.f)

CallRemoveJump ==
    /\ nCalls < MaxCalls
    /\ \E a \in CallArgs :
         \E r \in {RemoveJump(a.cancelled, hook4, hook6, ipv6, a.f)} :
             /\ hook4' = r.hook4
             /\ hook6' = r.hook6
             /\ UNCHANGED <<chain4, chain6, ipv6ChainFailureCount>>
             /\ DirectCall("remove", r, a.f)

CallEnsureChain ==
    /\ nCalls < MaxCalls
    /\ \E a \in CallArgs :
         \E r \in {EnsureChain(a.cancelled, chain4, chain6, ipv6, a.f)} :
             /\ chain4' = r.chain4
             /\ chain6' = r.chain6
             /\ ipv6ChainFailureCount' = ipv6ChainFailureCount + r.v6failures
             /\ UNCHANGED <<hook4, hook6>>
             /\ DirectCall("ensure", r, a.f)

CtlNext == CallAddJump \/ CallRemoveJump \/ CallEnsureChain

CtlSpec == CtlInit /\ [][CtlNext]_vars

\* --------------------------------------------- supervisor with /healthz
\* The supervisor from its startup probe on, serving /healthz requests while
\* the poller runs; the init container's chain set-up may come late.
MaxRequests == 2
MaxHealthPolls == 2

HealthInit ==
    /\ ipv6 \in BOOLEAN
    /\ hook4 = <<>>
    /\ hook6 = <<>>
    /\ lastRole = ""
    /\ observedRole = FALSE
    /\ pc = "start"
    /\ pending = NoPending
    /\ jumpState = SetJumpActive(FALSE)
    /\ errorsTotal = [k \in ErrorKinds |-> 0]
    /\ chainVerified = FALSE
    /\ labelsRead = FALSE
    /\ ctxCancelled = FALSE
    /\ polls = 0
    /\ lastRead = ""
    /\ nCalls = 0
    /\ nChanges = 0
    /\ lastCall = NoCall
    /\ script = <<>>
    /\ trace = <<>>
    /\ chain4 \in ChainStates
    /\ chain6 = IF ipv6 THEN chain4 ELSE Missing
    /\ health = <<>>
    /\ lastFault = NoFault
    /\ NoPreparer
    /\ life = NoLife

\* WatcherCmd.RunE from the chain probe to the start of the HTTP server and
\* the poller goroutines
Startup ==
    /\ pc = "start"
    /\ \E fault \in BOOLEAN :
         \E v \in {verifyChain(chain4, fault, errorsTotal)} :
             /\ chainVerified' = (chainVerified \/ v.verified)
             /\ errorsTotal' = v.errs
    /\ pc' = "run"
    /\ UNCHANGED <<ipv6, hook4, hook6, lastRole, observedRole, pending, jumpState,
                   labelsRead, ctxCancelled, polls, lastRead, nCalls, nChanges,
                   lastCall, script, trace>>
    /\ UNCHANGED kernelAux

\* a /healthz request arrives and its handler reads both flags under the lock
HealthzBegin ==
    /\ pc # "start"
    /\ Len(health) < MaxRequests
    /\ health' = Append(health,
                        [cv |-> chainVerified, lr |-> labelsRead, status |-> 0,
                         after200 |-> \E i \in 1..Len(health) : health[i].status = 200])
    /\ UNCHANGED <<ipv6, hook4, hook6, lastRole, observedRole, pc, pending, jumpState,
                   errorsTotal, chainVerified, labelsRead, ctxCancelled, polls, lastRead,
                   nCalls, nChanges, lastCall, script, trace, chain4, chain6, lastFault>>
    /\ UNCHANGED <<prepVars, life>>

\* the handler writes its response
HealthzRespond ==
    /\ \E i \in 1..Len(health) :
         /\ health[i].status = 0
         /\ health' = [health EXCEPT ![i].status = HealthzStatus(health[i].cv, health[i].lr)]
    /\ UNCHANGED <<ipv6, hook4, hook6, lastRole, observedRole, pc, pending, jumpState,
                   errorsTotal, chainVerified, labelsRead, ctxCancelled, polls, lastRead,
                   nCalls, nChanges, lastCall, script, trace, chain4, chain6, lastFault>>
    /\ UNCHANGED <<prepVars, life>>

\* the init container's Setup reaches EnsureChain, whenever it runs
InitEnsureChain ==
    /\ \E f \in FaultsFor(ipv6) :
         \E e \in {EnsureChain(FALSE, chain4, chain6, ipv6, f)} :
             /\ chain4' = e.chain4
             /\ chain6' = e.chain6
    /\ UNCHANGED <<ipv6, hook4, hook6, lastRole, observedRole, pc, pending, jumpState,
                   errorsTotal, chainVerified, labelsRead, ctxCancelled, polls, lastRead,
                   nCalls, nChanges, lastCall, script, trace, health, lastFault>>
    /\ UNCHANGED <<prepVars, life>>

\* the poller's polls while requests are being served
HealthPoll ==
    /\ polls < MaxHealthPolls
    /\ PollRead

HealthNext ==
    \/ Startup
    \/ HealthPoll
    \/ Handle
    \/ HealthzBegin
    \/ HealthzRespond
    \/ InitEnsureChain

HealthSpec == HealthInit /\ [][HealthNext]_vars

\* ------------------------------------------------------- init container
\* Setup run by the init container, step by step, on any configuration and
\* any mappings, with any pattern of failing tool invocations; the kubelet
\* may run the container again.  Once it has exited the supervisor counts
\* the audit file.
MaxRuns == 2

SeqsUpTo(S, n) == UNION {[1..k -> S] : k \in 0..n}

Configs ==
    [ChainName : {defaultChainName, "   "}, ExcludeCIDRs : SeqsUpTo(CIDRs, MaxItems),
     IPv6 : BOOLEAN, DnatMapPath : {"", AuditPath}]

PrepInit ==
    /\ cfg \in Configs
    /\ mappings \in SeqsUpTo(Mappings, MaxItems)
    /\ Len(cfg.ExcludeCIDRs) + Len(mappings) <= MaxItems
    /\ ipv6 = cfg.IPv6
    /\ hook4 = <<"X">>
    /\ hook6 = <<>>
    /\ chain4 \in {Missing, Populated}
    /\ chain6 = IF ipv6 THEN chain4 ELSE Missing
    /\ auditFile = IF chain4.exists THEN StaleFile ELSE NoFile
    /\ run = NoRun
    /\ runs = <<>>
    /\ services = <<>>
    /\ dnatCount = 0
    /\ discovery = NoDiscovery
    /\ ipv6ChainFailureCount = 0
    /\ life = NoLife
    /\ lastRole = ""
    /\ observedRole = FALSE
    /\ pc = "run"
    /\ pending = NoPending
    /\ jumpState = SetJumpActive(FALSE)
    /\ errorsTotal = [k \in ErrorKinds |-> 0]
    /\ chainVerified = FALSE
    /\ labelsRead = FALSE
    /\ ctxCancelled = FALSE
    /\ polls = 0
    /\ lastRead = ""
    /\ nCalls = 0
    /\ nChanges = 0
    /\ lastCall = NoCall
    /\ script = <<>>
    /\ trace = <<>>
    /\ health = <<>>
    /\ lastFault = NoFault

\* what no step of Setup touches
setupFrame ==
    <<ipv6, lastRole, observedRole, pc, pending, jumpState, errorsTotal, chainVerified,
      labelsRead, polls, lastRead, nCalls, nChanges, lastCall, script, trace, health,
      lastFault, cfg, mappings, services, dnatCount, discovery, life>>

\* faulty variant: a failed step does not end the run
SetupStep_Continue(step, r, err, next, file) ==
    /\ chain4' = r.chain4
    /\ chain6' = r.chain6
    /\ auditFile' = file
    /\ ipv6ChainFailureCount' = IF step = "ensure_chain"
                                THEN ipv6ChainFailureCount + r.v6failures
                                ELSE ipv6ChainFailureCount
    /\ run' = [pc |-> next,
               err |-> err,
               steps |-> Append(run.steps, step),
               cmds |-> run.cmds \o r.cmds,
               added |-> IF step = "add_dnat_rules" THEN r.added ELSE run.added,
               v6err |-> IF step = "ensure_chain" THEN r.v6err ELSE run.v6err]
    /\ runs' = IF next # "returned" THEN runs
               ELSE Append(runs, [err |-> err, chain4 |-> r.chain4, chain6 |-> r.chain6,
                                  v6err |-> IF step = "ensure_chain" THEN r.v6err
                                            ELSE run.v6err])
    /\ UNCHANGED <<hook4, hook6>>
    /\ UNCHANGED setupFrame

\* faulty variant: every step also inserts the jump into the hook chains
SetupStep_Activates(step, r, err, next, file) ==
    /\ chain4' = r.chain4
    /\ chain6' = r.chain6
    /\ auditFile' = file
    /\ ipv6ChainFailureCount' = IF step = "ensure_chain"
                                THEN ipv6ChainFailureCount + r.v6failures
                                ELSE ipv6ChainFailureCount
    /\ run' = [pc |-> IF err = "" THEN next ELSE "returned",
               err |-> err,
               steps |-> Append(run.steps, step),
               cmds |-> run.cmds \o r.cmds,
               added |-> IF step = "add_dnat_rules" THEN r.added ELSE run.added,
               v6err |-> IF step = "ensure_chain" THEN r.v6err ELSE run.v6err]
    /\ runs' = IF err = "" /\ next # "returned" THEN runs
               ELSE Append(runs, [err |-> err, chain4 |-> r.chain4, chain6 |-> r.chain6,
                                  v6err |-> IF step = "ensure_chain" THEN r.v6err
                                            ELSE run.v6err])
    /\ hook4' = AddJump(FALSE, hook4, hook6, cfg.IPv6, NoFault).hook4
    /\ hook6' = AddJump(FALSE, hook4, hook6, cfg.IPv6, NoFault).hook6
    /\ UNCHANGED setupFrame

\* Setup goes on to the next step, or returns err and the run is over
SetupStep(step, r, err, next, file) ==
    /\ chain4' = r.chain4
    /\ chain6' = r.chain6
    /\ auditFile' = file
    /\ ipv6ChainFailureCount' = IF step = "ensure_chain"
                                THEN ipv6ChainFailureCount + r.v6failures
                                ELSE ipv6ChainFailureCount
    /\ run' = [pc |-> IF err = "" THEN next ELSE "returned",
               err |-> err,
               steps |-> Append(run.steps, step),
               cmds |-> run.cmds \o r.cmds,
               added |-> IF step = "add_dnat_rules" THEN r.added ELSE run.added,
               v6err |-> IF step = "ensure_chain" THEN r.v6err ELSE run.v6err]
    /\ runs' = IF err = "" /\ next # "returned" THEN runs
               ELSE Append(runs, [err |-> err, chain4 |-> r.chain4, chain6 |-> r.chain6,
                                  v6err |-> IF step = "ensure_chain" THEN r.v6err
                                            ELSE run.v6err])
    /\ UNCHANGED <<hook4, hook6>>
    /\ UNCHANGED setupFrame

\* Setup returns before its first step
SetupReject(err) ==
    /\ run' = [run EXCEPT !.pc = "returned", !.err = err]
    /\ runs' = Append(runs, [err |-> err, chain4 |-> chain4, chain6 |-> chain6,
                             v6err |-> FALSE])
    /\ UNCHANGED <<hook4, hook6, chain4, chain6, auditFile, ipv6ChainFailureCount>>
    /\ UNCHANGED setupFrame

\* Setup: the context check, the chain name check and EnsureChain
SetupEnsure ==
    /\ run.pc = "ensure"
    /\ \E expired \in BOOLEAN :
         /\ ctxCancelled' = expired
         /\ IF expired THEN SetupReject("context")
            ELSE IF TrimSpace(cfg.ChainName) = "" THEN SetupReject("chain name")
            ELSE \E f \in FaultsFor(cfg.IPv6) :
                   \E e \in {EnsureChain(FALSE, chain4, chain6, cfg.IPv6, f)} :
                     \E r \in {[chain4 |-> e.chain4, chain6 |-> e.chain6, cmds |-> e.cmds,
                                v6failures |-> e.v6failures,
                                v6err |-> cfg.IPv6 /\ ~e.err
                                          /\ ensureIPv6Chain(FALSE, chain6, f).err]} :
                         SetupStep("ensure_chain", r,
                                   IF e.err THEN "prepare chain" ELSE "", "exclusions",
                                   auditFile)

\* Setup: AddExclusions
SetupExclusions ==
    /\ run.pc = "exclusions"
    /\ \E expired \in BOOLEAN, failAt \in 0..Len(cfg.ExcludeCIDRs) :
         /\ ctxCancelled' = (ctxCancelled \/ expired)
         /\ \E r \in {AddExclusions(ctxCancelled \/ expired, chain4, chain6,
                                    cfg.ExcludeCIDRs, cfg.IPv6, failAt)} :
              SetupStep("add_exclusions", r, IF r.err THEN "add exclusions" ELSE "",
                        "dnat", auditFile)

\* Setup: AddDNATRules
SetupDNAT ==
    /\ run.pc = "dnat"
    /\ \E expired \in BOOLEAN, failAt \in 0..Len(mappings) :
         /\ ctxCancelled' = (ctxCancelled \/ expired)
         /\ \E r \in {AddDNATRules(ctxCancelled \/ expired, chain4, chain6, mappings,
                                   cfg.IPv6, failAt)} :
              SetupStep("add_dnat_rules", r, IF r.err THEN "add dnat rules" ELSE "",
                        "audit", auditFile)

\* Setup: WriteDNATMap when a path is configured, then the summary and return
SetupAudit ==
    /\ run.pc = "audit"
    /\ UNCHANGED ctxCancelled
    /\ \E r \in {[chain4 |-> chain4, chain6 |-> chain6, cmds |-> <<>>]} :
         IF cfg.DnatMapPath = ""
         THEN /\ run' = [run EXCEPT !.pc = "returned"]
              /\ runs' = Append(runs, [err |-> "", chain4 |-> chain4, chain6 |-> chain6,
                                       v6err |-> run.v6err])
              /\ UNCHANGED <<hook4, hook6, chain4, chain6, auditFile,
                             ipv6ChainFailureCount>>
              /\ UNCHANGED setupFrame
         ELSE \E fault \in BOOLEAN :
                \E w \in {WriteDNATMap(cfg.DnatMapPath, mappings, auditFile, fault)} :
                    SetupStep("write_audit", r, IF w.err THEN "write dnat map" ELSE "",
                              "returned", w.file)

\* the kubelet starts the init container again: a new process, whose
\* ipv6ChainFailureCount starts at zero
Restart ==
    /\ run.pc = "returned"
    /\ Len(runs) < MaxRuns
    /\ run' = NoRun
    /\ ctxCancelled' = FALSE
    /\ ipv6ChainFailureCount' = 0
    /\ UNCHANGED <<hook4, hook6, chain4, chain6, auditFile, runs>>
    /\ UNCHANGED setupFrame

\* WatcherCmd.RunE counts the audit file into the dnat_rules gauge
CountAudit ==
    /\ run.pc = "returned"
    /\ run.err = ""
    /\ \E c \in {CountDNATMappings(cfg.DnatMapPath, auditFile)} :
         dnatCount' = IF c.err THEN dnatCount ELSE c.count
    /\ UNCHANGED <<ipv6, hook4, hook6, lastRole, observedRole, pc, pending, jumpState,
                   errorsTotal, chainVerified, labelsRead, ctxCancelled, polls, lastRead,
                   nCalls, nChanges, lastCall, script, trace, chain4, chain6, health,
                   lastFault, cfg, mappings, auditFile, run, runs, services, discovery,
                   ipv6ChainFailureCount, life>>

PrepNext ==
    \/ SetupEnsure
    \/ SetupExclusions
    \/ SetupDNAT
    \/ SetupAudit
    \/ Restart
    \/ CountAudit

PrepSpec == PrepInit /\ [][PrepNext]_vars

\* ------------------------------------------------------------ discovery
\* Discover called by the init command on any list of up to MaxServices
\* services with distinct names, each with any of the cluster IP settings and
\* port lists below, the API call succeeding or failing.
ServiceNames == {<<"orders">>, <<"orders", "-preview">>, <<"orders", "-active">>}

ServiceIPs ==
    {[ClusterIP |-> "10.0.0.10", ClusterIPs |-> <<"10.0.0.10">>],
     [ClusterIP |-> "10.0.1.10", ClusterIPs |-> <<>>],
     [ClusterIP |-> "fd00::10", ClusterIPs |-> <<"fd00::10">>],
     [ClusterIP |-> ClusterIPNone, ClusterIPs |-> <<ClusterIPNone>>],
     [ClusterIP |-> "", ClusterIPs |-> <<>>]}

ServicePorts ==
    {<<>>,
     <<[Port |-> 80, Protocol |-> "TCP"]>>,
     <<[Port |-> 80, Protocol |-> "UDP"]>>,
     <<[Port |-> 80, Protocol |-> "TCP"], [Port |-> 443, Protocol |-> "TCP"]>>}

Services ==
    {[Name |-> n, ClusterIP |-> ip.ClusterIP, ClusterIPs |-> ip.ClusterIPs, Ports |-> ps] :
        n \in ServiceNames, ip \in ServiceIPs, ps \in ServicePorts}

DiscoveryConfigs ==
    [Namespace : {"default", ""}, PreviewPattern : {DefaultPreviewPattern},
     ActiveSuffix : {"-active", ""}, PreviewSuffix : {"-preview"}]

DiscoverInit ==
    /\ services \in {l \in SeqsUpTo(Services, MaxServices) :
                        \A i, j \in 1..Len(l) : l[i].Name = l[j].Name => i = j}
    /\ cfg = NoConfig
    /\ mappings = <<>>
    /\ auditFile = NoFile
    /\ run = NoRun
    /\ runs = <<>>
    /\ dnatCount = 0
    /\ discovery = NoDiscovery
    /\ ipv6ChainFailureCount = 0
    /\ life = NoLife
    /\ ipv6 = FALSE
    /\ hook4 = <<>>
    /\ hook6 = <<>>
    /\ chain4 = Missing
    /\ chain6 = Missing
    /\ lastRole = ""
    /\ observedRole = FALSE
    /\ pc = "run"
    /\ pending = NoPending
    /\ jumpState = SetJumpActive(FALSE)
    /\ errorsTotal = [k \in ErrorKinds |-> 0]
    /\ chainVerified = FALSE
    /\ labelsRead = FALSE
    /\ ctxCancelled = FALSE
    /\ polls = 0
    /\ lastRead = ""
    /\ nCalls = 0
    /\ nChanges = 0
    /\ lastCall = NoCall
    /\ script = <<>>
    /\ trace = <<>>
    /\ health = <<>>
    /\ lastFault = NoFault

\* InitCmd.RunE calls Discover
CallDiscover ==
    /\ ~discovery.called
    /\ \E c \in DiscoveryConfigs, listFails \in BOOLEAN :
         \E d \in {Discover(c, services, listFails)} :
             /\ mappings' = d.mappings
             /\ discovery' = [called |-> TRUE, err |-> d.err, cfg |-> c]
    /\ UNCHANGED <<ipv6, hook4, hook6, lastRole, observedRole, pc, pending, jumpState,
                   errorsTotal, chainVerified, labelsRead, ctxCancelled, polls, lastRead,
                   nCalls, nChanges, lastCall, script, trace, chain4, chain6, health,
                   lastFault, cfg, auditFile, run, runs, services, dnatCount,
                   ipv6ChainFailureCount, life>>

DiscoverNext == CallDiscover

DiscoverSpec == DiscoverInit /\ [][DiscoverNext]_vars

\* ------------------------------------------------ supervisor lifecycle
\* WatcherCmd.RunE from the start of its goroutines to its return: the
\* supervisor's select, cancel, wait, shutdown and drain; the goroutine that
\* runs the HTTP server and owns serverErrCh (buffer 1); the goroutine that
\* runs the poller and closes pollDone; a termination signal from outside.
StartLife ==
    [sup |-> "select", srv |-> "serving", ch |-> <<>>, closed |-> FALSE, sig |-> 0,
     signalled |-> FALSE, serverErr |-> FALSE, got |-> FALSE, shutdown |-> FALSE,
     took |-> "", failed |-> FALSE, ret |-> "running"]

LifeInit ==
    /\ Wiring
    /\ jumpState = SetJumpActive(FALSE)
    /\ script = <<>>
    /\ hook4 = <<>>
    /\ hook6 = <<>>
    /\ life = StartLife

\* what the supervisor and the server goroutine never touch
lifeFrame ==
    <<ipv6, hook4, hook6, lastRole, observedRole, pc, pending, jumpState, errorsTotal,
      chainVerified, labelsRead, polls, lastRead, nCalls, nChanges, lastCall, script,
      trace, chain4, chain6, health, lastFault, prepVars>>

\* faulty variant: the supervisor does not wait for the poller
pollerFinished_NoWait == TRUE

\* pollDone is closed: Poller.Run has returned
pollerFinished == pc = "done"

\* SIGINT or SIGTERM is delivered into sigCh (buffer 1)
Signal ==
    /\ ~life.signalled
    /\ life' = [life EXCEPT !.signalled = TRUE, !.sig = 1]
    /\ UNCHANGED ctxCancelled
    /\ UNCHANGED lifeFrame

\* ListenAndServe returns an error that is not ErrServerClosed; the goroutine
\* sends it into serverErrCh
ServerFail ==
    /\ life.srv = "serving"
    /\ ~life.shutdown
    /\ life' = [life EXCEPT !.srv = "returned", !.ch = Append(@, "error"), !.failed = TRUE]
    /\ UNCHANGED ctxCancelled
    /\ UNCHANGED lifeFrame

\* ListenAndServe returns ErrServerClosed once Shutdown has been called
ServerClosed ==
    /\ life.srv = "serving"
    /\ life.shutdown
    /\ life' = [life EXCEPT !.srv = "returned"]
    /\ UNCHANGED ctxCancelled
    /\ UNCHANGED lifeFrame

\* faulty variant: the goroutine ends without closing serverErrCh
ServerExit_NoClose ==
    /\ life.srv = "returned"
    /\ life' = [life EXCEPT !.srv = "exited"]
    /\ UNCHANGED ctxCancelled
    /\ UNCHANGED lifeFrame

\* the server goroutine ends: the deferred close(serverErrCh)
ServerExit ==
    /\ life.srv = "returned"
    /\ life' = [life EXCEPT !.srv = "exited", !.closed = TRUE]
    /\ UNCHANGED ctxCancelled
    /\ UNCHANGED lifeFrame

\* the cases of the supervisor's select that can proceed: a signal in sigCh, a
\* receive from serverErrCh (a buffered value, or the closed channel), ctx.Done
selectReady ==
    {c \in {"signal", "server", "ctx"} :
        IF c = "signal" THEN life.sig = 1
        ELSE IF c = "server" THEN life.ch # <<>> \/ life.closed
        ELSE ctxCancelled}

\* the receive `err, ok := <-serverErrCh`: the buffered value when there is
\* one, the zero value of the closed channel otherwise
receiveServerErr(l) ==
    IF l.ch # <<>> THEN [l EXCEPT !.ch = Tail(@), !.got = TRUE]
    ELSE [l EXCEPT !.got = FALSE]

\* the select takes one of the cases that can proceed
SupSelect ==
    /\ life.sup = "select"
    /\ \E c \in selectReady :
          \E l \in {IF c = "signal" THEN [life EXCEPT !.sig = 0]
                    ELSE IF c = "server" THEN receiveServerErr(life)
                    ELSE life} :
             life' = [l EXCEPT !.sup = "cancel", !.took = c,
                               !.serverErr = (c = "server" /\ l.got)]
    /\ UNCHANGED ctxCancelled
    /\ UNCHANGED lifeFrame

\* cancel()
SupCancel ==
    /\ life.sup = "cancel"
    /\ ctxCancelled' = TRUE
    /\ life' = [life EXCEPT !.sup = "wait"]
    /\ UNCHANGED lifeFrame

\* <-pollDone
SupWait ==
    /\ life.sup = "wait"
    /\ pollerFinished
    /\ life' = [life EXCEPT !.sup = "shutdown"]
    /\ UNCHANGED ctxCancelled
    /\ UNCHANGED lifeFrame

\* srv.Shutdown under its own 5 s context: it returns in bounded time
SupShutdown ==
    /\ life.sup = "shutdown"
    /\ life' = [life EXCEPT !.sup = "drain", !.shutdown = TRUE]
    /\ UNCHANGED ctxCancelled
    /\ UNCHANGED lifeFrame

\* what RunE returns after "watcher shutdown complete": nil, whatever
\* serverErr holds and whatever the drain received
RunEReturn(serverErr, drained) == "nil"

\* main: the process exits 1 when Execute returns an error, 0 otherwise
ExitCode(err) == IF err = "nil" THEN 0 ELSE 1

\* the receive from serverErrCh, skipped when the select took the error;
\* then "watcher shutdown complete" and the return
SupDrain ==
    /\ life.sup = "drain"
    /\ IF life.serverErr
       THEN life' = [life EXCEPT !.sup = "complete", !.ret = RunEReturn(TRUE, FALSE)]
       ELSE /\ life.ch # <<>> \/ life.closed
            /\ \E l \in {receiveServerErr(life)} :
                  life' = [l EXCEPT !.sup = "complete", !.ret = RunEReturn(FALSE, l.got)]
    /\ UNCHANGED ctxCancelled
    /\ UNCHANGED lifeFrame

\* Poller.Run's first pollOnce, made before the loop looks at the context
FirstPoll ==
    /\ pc = "run"
    /\ PollRead

\* a tick taken by the loop's select
TickPoll ==
    /\ pc = "select"
    /\ HealthPoll

LifeNext ==
    \/ Signal
    \/ ServerFail
    \/ ServerClosed
    \/ ServerExit
    \/ SupSelect
    \/ SupCancel
    \/ SupWait
    \/ SupShutdown
    \/ SupDrain
    \/ FirstPoll
    \/ TickPoll
    \/ Handle
    \/ Stop

LifeSpec == LifeInit /\ [][LifeNext]_vars

\* the Go scheduler runs every goroutine that can take a step, and a select
\* with ctx.Done ready again and again takes it in the end; signals, server
\* failures and ticks are up to the environment
LifeFairSpec ==
    /\ LifeSpec
    /\ WF_vars(ServerClosed)
    /\ WF_vars(ServerExit)
    /\ WF_vars(SupSelect)
    /\ WF_vars(SupCancel)
    /\ WF_vars(SupWait)
    /\ WF_vars(SupShutdown)
    /\ WF_vars(SupDrain)
    /\ WF_vars(FirstPoll)
    /\ WF_vars(Handle)
    /\ SF_vars(Stop)

\* ------------------------------------------------- Poller.Run and its ticker
\* Poller.Run with the ticker made explicit: ticker.C holds at most one tick,
\* a tick that finds it full is dropped, and the loop's select polls only on
\* a tick it received.  The context is cancelled from outside at any moment.
\* life records the ticker and, for the cancellation, how many polls had
\* started (atCancel), how many were still due (owed: the initial poll, a
\* tick already in ticker.C) and how many ticks entered ticker.C later (late).
MaxTicks == 3

StartRun ==
    [sup |-> "poller", tick |-> FALSE, ticks |-> 0, atCancel |-> 0, owed |-> 0, late |-> 0]

RunInit ==
    /\ Wiring
    /\ jumpState = SetJumpActive(FALSE)
    /\ script = <<>>
    /\ hook4 = <<>>
    /\ hook6 = <<>>
    /\ life = StartRun

runFrame ==
    <<ipv6, hook4, hook6, lastRole, observedRole, pc, pending, jumpState, errorsTotal,
      chainVerified, labelsRead, polls, lastRead, nCalls, nChanges, lastCall, script,
      trace, chain4, chain6, health, lastFault, prepVars>>

\* the runtime's timer sends into ticker.C (capacity 1) without blocking
RunTick ==
    /\ life.ticks < MaxTicks
    /\ pc # "done"
    /\ life' = [life EXCEPT !.ticks = @ + 1, !.tick = TRUE,
                            !.late = IF ctxCancelled /\ ~life.tick THEN @ + 1 ELSE @]
    /\ UNCHANGED ctxCancelled
    /\ UNCHANGED runFrame

\* the caller cancels the context passed to Run
RunCancel ==
    /\ ~ctxCancelled
    /\ pc # "done"
    /\ ctxCancelled' = TRUE
    /\ life' = [life EXCEPT !.atCancel = polls,
                            !.owed = (IF pc = "run" THEN 1 ELSE 0)
                                     + (IF life.tick THEN 1 ELSE 0)]
    /\ UNCHANGED runFrame

\* faulty variant: the tick stays in ticker.C
takeTick_Keep(l) == l

\* the receive from ticker.C
takeTick(l) == [l EXCEPT !.tick = FALSE]

\* the initial pollOnce, made without looking at the context
RunFirstPoll ==
    /\ pc = "run"
    /\ PollRead

\* the select takes the ticker case: pollOnce
RunTickPoll ==
    /\ pc = "select"
    /\ life.tick
    /\ \E r \in ReadResults :
         /\ ctxCancelled => r = ReadError
         /\ pollBody(r)
    /\ life' = takeTick(life)
    /\ UNCHANGED <<chain4, chain6, health, lastFault, prepVars>>

RunNext ==
    \/ RunTick
    \/ RunCancel
    \/ RunFirstPoll
    \/ RunTickPoll
    \/ Handle
    \/ Stop

RunSpec == RunInit /\ [][RunNext]_vars

\* the goroutine running Run is scheduled, the label read and the handler
\* return, and a select that finds ctx.Done ready again and again takes it
RunFairSpec ==
    /\ RunSpec
    /\ WF_vars(RunFirstPoll)
    /\ WF_vars(Handle)
    /\ SF_vars(Stop)

\* ------------------------------------------------- the poller's state lock
\* Poller.mu: pollOnce takes the write lock around its update of lastRole and
\* observedRole; GetCurrentRole, called from another goroutine, takes the read
\* lock, reads lastRole and releases it.  life records who holds the lock and
\* what the last GetCurrentRole returned.
MaxReads == 2

StartLock ==
    [sup |-> "lock", mu |-> "free", readers |-> 0, role |-> "", calls |-> 0,
     during |-> FALSE]

LockInit ==
    /\ Wiring
    /\ jumpState = SetJumpActive(FALSE)
    /\ script = <<>>
    /\ hook4 = <<>>
    /\ hook6 = <<>>
    /\ life = StartLock

\* faulty variant: the unlock is deferred to pollOnce's return, so the lock
\* is held while the handler runs
unlockBeforeHandler_Deferred(invoke) == IF invoke THEN "poller" ELSE "free"

\* p.mu.Unlock() stands before the handler call: the lock is free whether or
\* not a handler call follows
unlockBeforeHandler(invoke) == "free"

\* pollOnce up to the handler call: the label read, then Lock (which waits
\* for a reader to leave), the update and Unlock
LockPoll ==
    /\ pc \in {"run", "select"}
    /\ polls < MaxPolls
    /\ \E r \in ReadResults :
         /\ GetLabel(r, errorsTotal, labelsRead).err
              \/ (life.mu = "free" /\ life.readers = 0)
         /\ pollBody(r)
    /\ life' = [life EXCEPT !.mu = IF lastRead' = ReadError THEN @
                                   ELSE unlockBeforeHandler(pc' = "handler")]
    /\ UNCHANGED <<chain4, chain6, health, lastFault, prepVars>>

\* GetCurrentRole: RLock, which waits while pollOnce holds the lock
GetCurrentRoleLock ==
    /\ life.calls < MaxReads
    /\ life.readers = 0
    /\ life.mu = "free"
    /\ life' = [life EXCEPT !.readers = 1, !.during = (pc = "handler")]
    /\ UNCHANGED <<ipv6, hook4, hook6, lastRole, observedRole, pc, pending, jumpState,
                   errorsTotal, chainVerified, labelsRead, ctxCancelled, polls, lastRead,
                   nCalls, nChanges, lastCall, script, trace, chain4, chain6, health,
                   lastFault, prepVars>>

\* GetCurrentRole: return p.lastRole and the deferred RUnlock
GetCurrentRoleReturn ==
    /\ life.readers = 1
    /\ life' = [life EXCEPT !.readers = 0, !.role = lastRole, !.calls = @ + 1]
    /\ UNCHANGED <<ipv6, hook4, hook6, lastRole, observedRole, pc, pending, jumpState,
                   errorsTotal, chainVerified, labelsRead, ctxCancelled, polls, lastRead,
                   nCalls, nChanges, lastCall, script, trace, chain4, chain6, health,
                   lastFault, prepVars>>

LockNext ==
    \/ LockPoll
    \/ Handle
    \/ GetCurrentRoleLock
    \/ GetCurrentRoleReturn

LockSpec == LockInit /\ [][LockNext]_vars

\* ------------------------------------------- add_jump and remove_jump in turn
\* AddJump and RemoveJump called one after the other, by the only writer, on
\* hook chains that start without a jump; any tool invocation of a call may
\* fail with an error that is not exit code 1.
MaxSeqCalls == 3

SeqInit ==
    /\ CtlInit
    /\ ~HasJump(hook4)
    /\ ~HasJump(hook6)
    /\ chain4 = Populated
    /\ chain6 = IF ipv6 THEN Populated ELSE Missing

SeqAddJump ==
    /\ nCalls < MaxSeqCalls
    /\ \E a \in CallArgs :
         \E r \in {AddJump(a.cancelled, hook4, hook6, ipv6, a.f)} :
             /\ hook4' = r.hook4
             /\ hook6' = r.hook6
             /\ UNCHANGED <<chain4, chain6, ipv6ChainFailureCount>>
             /\ DirectCall("add", r, a.f)

SeqRemoveJump ==
    /\ nCalls < MaxSeqCalls
    /\ \E a \in CallArgs :
         \E r \in {RemoveJump(a.cancelled, hook4, hook6, ipv6, a.f)} :
             /\ hook4' = r.hook4
             /\ hook6' = r.hook6
             /\ UNCHANGED <<chain4, chain6, ipv6ChainFailureCount>>
             /\ DirectCall("remove", r, a.f)

SeqNext == SeqAddJump \/ SeqRemoveJump

SeqSpec == SeqInit /\ [][SeqNext]_vars

\* ------------------------------------------------- concurrent add_jump
\* Two invocations of AddJump run at the same time on the same hook chains,
\* for instance from two containers that share the network namespace.  Every
\* tool invocation is one step (the -w flag makes it wait for the kernel's
\* table lock); nothing holds the lock from an invocation's probe to its
\* insert.  No tool invocation fails.  life holds where each invocation stands.
Procs == {"a", "b"}

StartConc == [sup |-> "concurrent", at |-> [p \in Procs |-> "probe4"]]

ConcInit ==
    /\ Wiring
    /\ jumpState = SetJumpActive(FALSE)
    /\ script = <<>>
    /\ life = StartConc

\* AddJump, one tool invocation at a time: where the invocation goes after
\* the step it stands at, given what the probe answered
afterStep(at, exists, v6) ==
    IF at = "probe4" THEN (IF exists THEN "done" ELSE "insert4")
    ELSE IF at = "insert4" THEN (IF v6 THEN "probe6" ELSE "done")
    ELSE IF at = "probe6" THEN (IF exists THEN "done" ELSE "insert6")
    ELSE "done"

AddJumpStep(p) ==
    /\ life.at[p] # "done"
    /\ \E at \in {life.at[p]} :
         /\ hook4' = IF at = "insert4" THEN Run(hook4, "-I", FALSE).rules ELSE hook4
         /\ hook6' = IF at = "insert6" THEN Run(hook6, "-I", FALSE).rules ELSE hook6
         /\ \E exists \in {IF at = "probe4" THEN jumpExistsWithBinary(hook4, FALSE).exists
                            ELSE IF at = "probe6"
                                 THEN jumpExistsWithBinary(hook6, FALSE).exists
                                 ELSE FALSE} :
              life' = [life EXCEPT !.at[p] = afterStep(at, exists, ipv6)]
    /\ UNCHANGED <<ipv6, lastRole, observedRole, pc, pending, jumpState, errorsTotal,
                   chainVerified, labelsRead, ctxCancelled, polls, lastRead, nCalls,
                   nChanges, lastCall, script, trace, chain4, chain6, health, lastFault,
                   prepVars>>

ConcNext == \E p \in Procs : AddJumpStep(p)

ConcSpec == ConcInit /\ [][ConcNext]_vars

\* ============================================================== claims
OtherRole(role) == IF role = ActiveValue THEN PreviewValue ELSE ActiveValue

\* the poller is between two polls (or has returned)
Idle == pc \in {"select", "done"}

\* a step that is a poll delivering a successful read
GoodPoll == polls' = polls + 1 /\ lastRead' # ReadError

\* a step that is a handler invocation
Invocation == nCalls' = nCalls + 1

OpCount(op) == Cardinality({i \in 1..Len(trace) : trace[i].op = op})

NoFaultInjected == \A i \in 1..Len(trace) : ~trace[i].faulted

\* C1: with only successful label reads and only successful jump-manager
\* invocations, whenever the last observed label is the active value the hook
\* chain holds no jump to the private chain.
C1_ActiveHasNoJump ==
    (Idle /\ observedRole /\ lastRole = ActiveValue
          /\ errorsTotal[metricErrorLabelRead] = 0
          /\ errorsTotal[metricErrorLabelIptables] = 0)
        => ~HasJump(hook4)

\* C2: with only successful label reads and only successful jump-manager
\* invocations, whenever the last observed label is the preview value the IPv4
\* hook chain holds a jump to the private chain.
C2_PreviewHasJump ==
    (Idle /\ observedRole /\ lastRole = PreviewValue
          /\ errorsTotal[metricErrorLabelRead] = 0
          /\ errorsTotal[metricErrorLabelIptables] = 0)
        => HasJump(hook4)

\* C3: transition totality.  Every handler invocation, pending or made, belongs
\* to its own change of the last-observed value; a poll hands the handler the
\* value the poller held before that poll ("" on the first observation) and
\* the value it holds now.
C3_TransitionTotality ==
    /\ [](nCalls + (IF pc = "handler" THEN 1 ELSE 0) <= nChanges)
    /\ [][(pc' = "handler" /\ pc # "handler")
            => /\ polls' = polls + 1
               /\ lastRole' # lastRole
               /\ pending'.previous = lastRole
               /\ pending'.current = lastRole'
               /\ (~observedRole => pending'.previous = "")]_vars
    /\ [][Invocation
            => /\ pc = "handler"
               /\ lastCall'.previous = pending.previous
               /\ lastCall'.current = pending.current]_vars

C3_Witness ==
    /\ nCalls >= 2
    /\ lastCall.previous # ""
    /\ errorsTotal[metricErrorLabelRead] >= 1

\* C4: a poll after the first observation records a value that differs from
\* the last-observed one and invokes the handler iff both the previous and the
\* new value are recognized; an unchanged value invokes nothing.
C4_ChangedValue ==
    [][(GoodPoll /\ observedRole)
         => IF lastRead' = lastRole
            THEN lastRole' = lastRole /\ pc' # "handler" /\ nCalls' = nCalls
            ELSE /\ lastRole' = lastRead'
                 /\ (pc' = "handler")
                      = (isRecognizedRole(lastRole) /\ isRecognizedRole(lastRead'))
                 /\ (pc' = "handler"
                       => pending' = [invoke |-> TRUE, previous |-> lastRole,
                                      current |-> lastRead'])]_vars

C4_Witness ==
    /\ pc = "handler"
    /\ isRecognizedRole(pending.previous)
    /\ pending.current = OtherRole(pending.previous)

\* C5: the first successful observation is recorded and invokes the handler,
\* once and with previous = "", iff the value is recognized; the jump manager
\* then issues add_jump for preview and remove_jump for active.
C5_FirstObservation ==
    /\ [][(GoodPoll /\ ~observedRole)
            => /\ lastRole' = lastRead'
               /\ observedRole'
               /\ (pc' = "handler") = isRecognizedRole(lastRead')
               /\ (pc' = "handler"
                     => pending' = [invoke |-> TRUE, previous |-> "",
                                    current |-> lastRead'])]_vars
    /\ [][(Invocation /\ lastCall'.previous = "")
            => /\ nCalls = 0
               /\ lastCall'.op = (IF lastCall'.current = PreviewValue
                                  THEN "add" ELSE "remove")]_vars

C5_Witness ==
    /\ nCalls = 1
    /\ lastCall.previous = ""
    /\ lastCall.op = "add"
    /\ ~lastCall.err
    /\ HasJump(hook4)
    /\ polls = 1

\* C6: a failed label read counts one label_read error and leaves the poller's
\* last-observed value and first-observation flag alone, invokes no handler
\* and leaves the loop selecting; the successful read after it is compared
\* with the value observed before it; the reads [active, <read-error>, preview]
\* give one label_read increment and one add_jump, made on the third read.
C6_ReadError ==
    /\ [][(polls' = polls + 1 /\ lastRead' = ReadError)
            => /\ lastRole' = lastRole
               /\ observedRole' = observedRole
               /\ nCalls' = nCalls
               /\ pc' = "select"
               /\ errorsTotal' = [errorsTotal EXCEPT ![metricErrorLabelRead] = @ + 1]
               /\ UNCHANGED <<hook4, hook6, jumpState>>]_vars
    /\ [][(GoodPoll /\ polls >= 2 /\ script[polls] = ReadError
                    /\ script[polls - 1] # ReadError)
            => (pc' = "handler")
                 = (/\ script[polls - 1] # lastRead'
                    /\ isRecognizedRole(script[polls - 1])
                    /\ isRecognizedRole(lastRead'))]_vars
    /\ []((script = Scenario6 /\ polls = 3 /\ pc = "select")
            => /\ errorsTotal[metricErrorLabelRead] = 1
               /\ OpCount("add") = 1
               /\ trace[3].op = "add"
               /\ lastCall.previous = ActiveValue
               /\ lastCall.current = PreviewValue)

C6_Witness ==
    /\ script = Scenario6
    /\ polls = 3
    /\ pc = "select"
    /\ ~lastCall.err
    /\ HasJump(hook4)

Scenario5Done ==
    /\ script = Scenario5
    /\ polls = 5
    /\ pc = "select"
    /\ NoFaultInjected

\* C7 (as stated): over the reads [active, active, preview, preview, active]
\* with every kernel operation succeeding, the controller calls are exactly
\* one add_jump, at observation 3, and one remove_jump, at observation 5; the
\* gauge after the five observations reads [0,0,1,1,0]; no iptables error.
C7_Original ==
    Scenario5Done
      => /\ OpCount("add") = 1 /\ trace[3].op = "add"
         /\ OpCount("remove") = 1 /\ trace[5].op = "remove"
         /\ [i \in 1..5 |-> trace[i].gauge] = <<0, 0, 1, 1, 0>>
         /\ errorsTotal[metricErrorLabelIptables] = 0

\* C7 (amended): over the same reads the controller calls are remove_jump at
\* observation 1 (the first observation of a recognized role), add_jump at
\* observation 3 and remove_jump at observation 5, and none at observations 2
\* and 4; the gauge reads [0,0,1,1,0]; no iptables error is counted.
C7_Scenario5 ==
    Scenario5Done
      => /\ [i \in 1..5 |-> trace[i].op] = <<"remove", "none", "add", "none", "remove">>
         /\ [i \in 1..5 |-> trace[i].gauge] = <<0, 0, 1, 1, 0>>
         /\ \A i \in 1..5 : ~trace[i].err
         /\ errorsTotal[metricErrorLabelIptables] = 0
         /\ nCalls = 3

C7_Witness ==
    /\ Scenario5Done
    /\ Len(trace) = 5
    /\ ~HasJump(hook4)
    /\ jumpState = 0

\* C8: a handler error never interrupts polling.  The step in which the
\* handler fails leaves the loop selecting; the loop returns only on a
\* cancelled context; and after a failure a recognized transition still
\* invokes the handler.
C8_HandlerErrorKeepsPolling ==
    /\ [][(Invocation /\ lastCall'.err) => pc' = "select"]_vars
    /\ [][(pc' = "done" /\ pc # "done") => (ctxCancelled /\ pc = "select")]_vars
    /\ [][(GoodPoll /\ errorsTotal[metricErrorLabelIptables] >= 1 /\ observedRole
                    /\ isRecognizedRole(lastRole)
                    /\ lastRead' = OtherRole(lastRole))
            => (pc' = "handler" /\ pending'.current = lastRead')]_vars

C8_Witness ==
    /\ lastCall.err
    /\ errorsTotal[metricErrorLabelIptables] >= 1
    /\ pc = "handler"
    /\ ~ctxCancelled

\* C9: a failed transition is not retried.  When the handler fails the new
\* role stays recorded; a later poll returning the same value invokes nothing;
\* the next invocation comes with a change to, or from, the other recognized
\* value.
C9_NoRetry ==
    /\ [][(Invocation /\ lastCall'.err)
            => (lastRole' = lastCall'.current /\ lastRole' = lastRole)]_vars
    /\ [][(GoodPoll /\ lastCall.err /\ lastRead' = lastRole)
            => (pc' # "handler" /\ nCalls' = nCalls
                /\ UNCHANGED <<hook4, hook6, jumpState>>)]_vars
    /\ [][(pc' = "handler" /\ pc # "handler" /\ lastCall.err)
            => OtherRole(lastCall.current) \in {lastRole, lastRole'}]_vars

\* the add_jump of the first observation failed and two more polls returned
\* preview: the role is preview, the jump is absent, the handler was not retried
C9_Witness ==
    /\ nCalls = 1
    /\ lastCall.err
    /\ lastCall.current = PreviewValue
    /\ lastRole = PreviewValue
    /\ nChanges = 1
    /\ errorsTotal[metricErrorLabelRead] = 0
    /\ polls >= 3
    /\ pc = "select"
    /\ ~HasJump(hook4)

\* C10: metric/state coherence of the jump manager.  A successful call with
\* current = preview leaves the gauge at 1, one with current = active at 0; a
\* failed call adds exactly 1 to the iptables counter and keeps the gauge; any
\* other current value issues no command and changes neither.
C10_MetricCoherence ==
    [][Invocation
         => LET c == lastCall' IN
            /\ (c.current = PreviewValue /\ ~c.err) => jumpState' = 1
            /\ (c.current = ActiveValue /\ ~c.err) => jumpState' = 0
            /\ c.err => /\ errorsTotal' = [errorsTotal EXCEPT
                                             ![metricErrorLabelIptables] = @ + 1]
                        /\ jumpState' = jumpState
            /\ ~c.err => errorsTotal' = errorsTotal
            /\ ~isRecognizedRole(c.current)
                 => /\ c.cmds = <<>>
                    /\ ~c.err
                    /\ UNCHANGED <<jumpState, errorsTotal, hook4, hook6>>]_vars

C10_Witness ==
    /\ nCalls >= 2
    /\ lastCall.err
    /\ lastCall.current = ActiveValue
    /\ jumpState = 1
    /\ errorsTotal[metricErrorLabelIptables] = 1

\* a step that is the arrival of a /healthz request
Arrival == Len(health') = Len(health) + 1

Responded(i) == health[i].status # 0

\* C11: health monotonicity.  Neither readiness flag is ever cleared, so a
\* /healthz request that arrives after some request has returned 200 reads
\* both flags set and returns 200 itself.
C11_HealthMonotonic ==
    /\ [][(chainVerified => chainVerified') /\ (labelsRead => labelsRead')]_vars
    /\ [](\A i \in 1..Len(health) :
            health[i].after200
              => /\ health[i].cv /\ health[i].lr
                 /\ Responded(i) => health[i].status = 200)

\* a second request returned 200 after the first did, with a failed label
\* read in between or after
C11_Witness ==
    /\ Len(health) = 2
    /\ health[1].status = 200
    /\ health[2].after200
    /\ health[2].status = 200
    /\ errorsTotal[metricErrorLabelRead] >= 1

\* C12: a /healthz request returns 200 iff both readiness flags were set when
\* it read them, and 503 with neither or exactly one of them set.
C12_HealthzIffBothFlags ==
    /\ [][Arrival => /\ health'[Len(health')].cv = chainVerified
                     /\ health'[Len(health')].lr = labelsRead]_vars
    /\ [](\A i \in 1..Len(health) :
            Responded(i)
              => /\ health[i].status \in {200, 503}
                 /\ (health[i].status = 200) = (health[i].cv /\ health[i].lr))

\* one request answered 503 with exactly one flag set, a later one 200
C12_Witness ==
    /\ Len(health) = 2
    /\ health[1].status = 503
    /\ health[1].cv /\ ~health[1].lr
    /\ health[2].status = 200

\* C13: the wrapped label reader.  A successful read, an empty value included,
\* sets labels-read and counts nothing; a failed read adds exactly 1 to the
\* label_read counter, leaves labels-read as it was and hands the poller an
\* error, so that the poll records nothing and invokes nothing.
C13_WrappedReader ==
    [][(polls' = polls + 1)
         => IF lastRead' # ReadError
            THEN /\ labelsRead'
                 /\ errorsTotal' = errorsTotal
                 /\ lastRole' = lastRead'
            ELSE /\ errorsTotal' = [errorsTotal EXCEPT ![metricErrorLabelRead] = @ + 1]
                 /\ labelsRead' = labelsRead
                 /\ pc' = "select"
                 /\ UNCHANGED <<lastRole, observedRole, nCalls>>]_vars

\* the first read returned the empty value and set labels-read; the second
\* failed and left it set
C13_Witness ==
    /\ polls = 2
    /\ observedRole /\ lastRole = ""
    /\ lastRead = ReadError
    /\ labelsRead
    /\ errorsTotal[metricErrorLabelRead] = 1

\* C14: the startup probe is made once.  When it fails or finds the chain
\* missing, chain_verify is counted once and chain-verified stays unset; the
\* poller and the HTTP server start all the same; from then on neither the
\* flag nor the counter changes, whatever happens to the chain, and every
\* /healthz response is 503.
C14_ChainProbeOnce ==
    /\ [][(pc = "start" /\ pc' # "start")
            => /\ pc' = "run"
               /\ ~chain4.exists => ~chainVerified'
               /\ chainVerified' => errorsTotal' = errorsTotal
               /\ ~chainVerified'
                    => errorsTotal' = [errorsTotal EXCEPT ![metricErrorChainVerify] = @ + 1]]_vars
    /\ [][(pc # "start")
            => /\ chainVerified' = chainVerified
               /\ errorsTotal'[metricErrorChainVerify]
                    = errorsTotal[metricErrorChainVerify]]_vars
    /\ []((pc # "start" /\ ~chainVerified)
            => /\ errorsTotal[metricErrorChainVerify] = 1
               /\ \A i \in 1..Len(health) : health[i].status \in {0, 503})

\* the probe failed, the chain exists by now and labels were read: the poller
\* polls, the server answers, and the answer is 503
C14_Witness ==
    /\ ~chainVerified
    /\ errorsTotal[metricErrorChainVerify] = 1
    /\ chain4.exists
    /\ labelsRead
    /\ polls >= 2
    /\ Len(health) >= 1
    /\ health[Len(health)].lr
    /\ health[Len(health)].status = 503

\* a step that is a direct call of one controller operation
Called(op) == Invocation /\ lastCall'.op = op

Issued(cmds, c) == \E i \in 1..Len(cmds) : cmds[i] = c

WithoutJump(rules) == SelectSeq(rules, LAMBDA x : x # "J")

C16_RemoveJumpIdempotent ==
    /\ [][(Called("remove") /\ ~lastCall'.err /\ HasJump(hook4))
            => /\ Issued(lastCall'.cmds, <<ipv4Binary, "-D">>)
               /\ hook4' = WithoutJump(hook4)]_vars
    /\ [][(Called("remove") /\ ~HasJump(hook4))
            => /\ ~Issued(lastCall'.cmds, <<ipv4Binary, "-D">>)
               /\ hook4' = hook4
               /\ (lastCall'.err => (lastCall'.cmds = <<>> \/ lastFault'.c4))]_vars
    /\ [][(Called("remove") /\ ~HasJump(hook6))
            => /\ ~Issued(lastCall'.cmds, <<ipv6Binary, "-D">>)
               /\ hook6' = hook6]_vars
    /\ [][(Called("remove") /\ ~HasJump(hook4) /\ (ipv6 => ~HasJump(hook6)))
            => /\ \A i \in 1..Len(lastCall'.cmds) : lastCall'.cmds[i][2] = "-C"
               /\ UNCHANGED <<hook4, hook6, chain4, chain6>>]_vars

\* a jump behind another rule was deleted by match, then a second remove_jump
\* found it absent and only probed
C16_Witness ==
    /\ nCalls = 2
    /\ lastCall.op = "remove"
    /\ ~lastCall.err
    /\ lastCall.cmds = << <<ipv4Binary, "-C">> >>
    /\ hook4 = <<"X">>

\* C17: after every successful add_jump, whatever the hook chain held before,
\* the jump is the first rule of the IPv4 hook chain.
C17_JumpFirst ==
    [][(Called("add") /\ ~lastCall'.err)
         => (hook4' # <<>> /\ hook4'[1] = "J")]_vars

\* C18: whenever add_jump is called with dual-stack enabled, returns success
\* and no ip6tables invocation fails, the IPv6 hook chain holds the jump.
C18_AddJumpIPv6 ==
    [][(Called("add") /\ ipv6 /\ ~lastCall'.err /\ ~lastFault'.c6 /\ ~lastFault'.m6)
         => HasJump(hook6')]_vars

\* C19: IPv6 degradation is non-fatal for jump management.  With dual-stack
\* enabled, once the IPv4 steps of add_jump or remove_jump have succeeded (an
\* ip6tables invocation was reached), the call returns success whatever the
\* ip6tables invocations did: the IPv4 insert or delete stays, the jump
\* manager sets the gauge and counts no iptables error.
C19_IPv6NonFatal ==
    [][(Invocation /\ ipv6
          /\ \E i \in 1..Len(lastCall'.cmds) : lastCall'.cmds[i][1] = ipv6Binary)
         => /\ ~lastCall'.err
            /\ errorsTotal' = errorsTotal
            /\ lastCall'.op = "add"
                 => (jumpState' = 1 /\ hook4' = <<"J">> \o hook4)
            /\ lastCall'.op = "remove"
                 => (jumpState' = 0 /\ hook4' = WithoutJump(hook4))]_vars

\* an add_jump whose ip6tables insert failed: IPv4 holds the jump, IPv6 does
\* not, the gauge is 1 and no iptables error is counted
C19_Witness ==
    /\ ipv6
    /\ lastCall.op = "add"
    /\ ~lastCall.err
    /\ lastCall.cmds[Len(lastCall.cmds)] = <<ipv6Binary, "-I">>
    /\ ~HasJump(hook6)
    /\ hook4[1] = "J"
    /\ jumpState = 1
    /\ errorsTotal[metricErrorLabelIptables] = 0

\* C20: after every successful ensure_chain the IPv4 private chain exists and
\* is empty; the call probed the chain and then issued exactly one of flush
\* and create: flush when the chain existed, create when it did not.
C20_EnsureChainEmpty ==
    [][(Called("ensure") /\ ~lastCall'.err)
         => LET cmds == lastCall'.cmds IN
            /\ chain4' = [exists |-> TRUE, rules |-> <<>>]
            /\ Len(cmds) >= 2
            /\ cmds[1] = <<ipv4Binary, "-L">>
            /\ cmds[2] = <<ipv4Binary, IF chain4.exists THEN "-F" ELSE "-N">>
            /\ Cardinality({i \in 1..Len(cmds) :
                              cmds[i] \in {<<ipv4Binary, "-F">>, <<ipv4Binary, "-N">>}}) = 1
            /\ UNCHANGED <<hook4, hook6>>]_vars

\* a chain was created by one call and flushed by the next
C20_Witness ==
    /\ nCalls = 2
    /\ lastCall.op = "ensure"
    /\ ~lastCall.err
    /\ Issued(lastCall.cmds, <<ipv4Binary, "-F">>)
    /\ chain4 = [exists |-> TRUE, rules |-> <<>>]

\* ----------------------------------------------- claims on the preparer
Returned == run.pc = "returned"

IsPrefix(s, t) == Len(s) <= Len(t) /\ SubSeq(t, 1, Len(s)) = s

EndsWith(s, t) == Len(t) <= Len(s) /\ SubSeq(s, Len(s) - Len(t) + 1, Len(s)) = t

SetupSteps == <<"ensure_chain", "add_exclusions", "add_dnat_rules", "write_audit">>

\* the error Setup returns when the given step fails
ErrorOf(step) ==
    CASE step = "ensure_chain" -> "prepare chain"
      [] step = "add_exclusions" -> "add exclusions"
      [] step = "add_dnat_rules" -> "add dnat rules"
      [] step = "write_audit" -> "write dnat map"

\* the rules the configuration asks for in one family's chain: the
\* exclusions of that family in list order, then the DNAT rules of the
\* mappings of that family in list order
ExclusionsFor(fam) ==
    LET Keep(c) == ParseCIDR(TrimSpace(c)) = fam
        kept == SelectSeq(cfg.ExcludeCIDRs, Keep)
    IN  [i \in 1..Len(kept) |-> ExclusionRule(TrimSpace(kept[i]))]

DNATFor(fam) ==
    LET Keep(m) == /\ isIPv6(m.ActiveClusterIP) = (fam = "6")
                   /\ isIPv6(m.PreviewClusterIP) = (fam = "6")
        kept == SelectSeq(mappings, Keep)
    IN  [i \in 1..Len(kept) |-> DNATRule(kept[i])]

ExpectedRules(fam) ==
    IF fam = "6" /\ ~cfg.IPv6 THEN <<>> ELSE ExclusionsFor(fam) \o DNATFor(fam)

\* C21: when Setup has run twice with success on the same configuration and
\* mappings, each family's private chain holds after the second run the rule
\* list it held after the first.
C21_Idempotent ==
    (Len(runs) >= 2 /\ runs[1].err = "" /\ runs[2].err = "")
        => /\ runs[2].chain4 = runs[1].chain4
           /\ runs[2].chain6 = runs[1].chain6

C23_FailStop ==
    [][/\ run.err # "" => /\ run' = run \/ run' = NoRun
                          /\ UNCHANGED <<chain4, chain6, auditFile>>
       /\ (run.err = "" /\ run'.err # "")
            => /\ run'.pc = "returned"
               /\ \/ run'.steps = <<>> /\ run'.err \in {"context", "chain name"}
                  \/ /\ run'.steps = Append(run.steps, SetupSteps[Len(run.steps) + 1])
                     /\ run'.err = ErrorOf(run'.steps[Len(run'.steps)])
               /\ run'.err # "write dnat map" => auditFile' = auditFile
               /\ chain4.exists => chain4'.exists /\ IsPrefix(chain4.rules, chain4'.rules)
               /\ chain6.exists => chain6'.exists /\ IsPrefix(chain6.rules, chain6'.rules)]_vars

\* add_dnat_rules failed after add_exclusions had appended a rule: the rule
\* stays and no audit file exists
C23_Witness ==
    /\ Returned
    /\ run.err = "add dnat rules"
    /\ run.steps = <<"ensure_chain", "add_exclusions", "add_dnat_rules">>
    /\ Len(chain4.rules) >= 1
    /\ chain4.rules[1].target = "RETURN"
    /\ cfg.DnatMapPath # ""
    /\ ~auditFile.exists

\* C24: no step of Setup, successful or failed, changes a hook chain; every
\* command of a run lists, creates or flushes the private chain or appends to
\* it.
C24_HookChainsUntouched ==
    [][run' # run
         => /\ UNCHANGED <<hook4, hook6>>
            /\ \A i \in 1..Len(run'.cmds) : run'.cmds[i][2] \in {"-L", "-N", "-F", "-A"}]_vars

\* a whole Setup went through on a missing chain
C24_Witness ==
    /\ Returned
    /\ run.err = ""
    /\ Len(run.cmds) = 4
    /\ run.cmds[2] = <<ipv4Binary, "-N">>
    /\ hook4 = <<"X">>
    /\ hook6 = <<>>

\* C25: the count add_dnat_rules returns is the number of rules it appended;
\* without a failure these are the DNAT rules of the IPv4 mappings on the IPv4
\* chain and, with dual-stack on, those of the IPv6 mappings on the IPv6
\* chain, mixed-family mappings giving none; every append goes through the
\* tool of the rule's family.
C25_AddedCount ==
    [][(run.pc = "dnat" /\ run'.pc # "dnat")
         => /\ run'.added = (Len(chain4'.rules) - Len(chain4.rules))
                            + (Len(chain6'.rules) - Len(chain6.rules))
            /\ IsPrefix(chain4.rules, chain4'.rules)
            /\ IsPrefix(chain6.rules, chain6'.rules)
            /\ run'.err = ""
                 => /\ chain4'.rules = chain4.rules \o DNATFor("4")
                    /\ chain6'.rules = chain6.rules
                                       \o (IF cfg.IPv6 THEN DNATFor("6") ELSE <<>>)
            /\ \A i \in (Len(run.cmds) + 1)..Len(run'.cmds) :
                  /\ run'.cmds[i][2] = "-A"
                  /\ run'.cmds[i][3].target = "DNAT"
                  /\ run'.cmds[i][1] = IF isIPv6(run'.cmds[i][3].d) THEN ipv6Binary
                                       ELSE ipv4Binary]_vars

\* the second append failed: one rule was appended and one is counted
C25_Witness ==
    /\ Returned
    /\ run.err = "add dnat rules"
    /\ Len(mappings) = 2
    /\ run.added = 1
    /\ Len(run.cmds) >= 2
    /\ run.cmds[Len(run.cmds)][2] = "-A"
    /\ run.cmds[Len(run.cmds) - 1][2] = "-A"

\* C26: counting the file write_audit produced gives the number of mappings
\* written, the two header lines left out, whatever the file held before.
C26_AuditRoundTrip ==
    (Returned /\ run.err = "" /\ cfg.DnatMapPath # "")
        => /\ CountDNATMappings(cfg.DnatMapPath, auditFile)
                = [count |-> Len(mappings), err |-> FALSE]
           /\ Len(auditFile.lines) = Len(mappings) + 2

\* a file holding a stale record was rewritten for two mappings and counted
C26_Witness ==
    /\ Returned
    /\ run.err = ""
    /\ cfg.DnatMapPath # ""
    /\ Len(mappings) = 2
    /\ dnatCount = 2
    /\ Len(runs) = 1
    /\ runs[1].err = ""

\* C28: Setup entered with a live context and a blank chain name goes on to
\* ensure_chain.
C28_BlankChainNameFallsBack ==
    (Returned /\ TrimSpace(cfg.ChainName) = "" /\ run.err # "context")
        => /\ run.steps # <<>>
           /\ run.cmds # <<>>
           /\ run.err # "chain name"

\* --------------------------------------------------- claims on discovery
\* the listed service a mapping was emitted for, and its preview service
BaseOf(m) == ServiceNamed(services, m.ServiceName)
PreviewOf(m) ==
    ServiceNamed(services,
                 DerivePreviewName(m.ServiceName, discovery.cfg.ActiveSuffix,
                                   discovery.cfg.PreviewSuffix, discovery.cfg.PreviewPattern))

\* C27: every mapping Discover emits has active and preview IPs that are
\* non-empty, not the headless sentinel, different and of one family, and a
\* port and protocol that the base service and its preview service both expose.
C27_PairingCorrect ==
    discovery.called
        => \A i \in 1..Len(mappings) :
              LET m == mappings[i] IN
              /\ isValidClusterIP(m.ActiveClusterIP)
              /\ isValidClusterIP(m.PreviewClusterIP)
              /\ m.ActiveClusterIP # m.PreviewClusterIP
              /\ isIPv6(m.ActiveClusterIP) = isIPv6(m.PreviewClusterIP)
              /\ HasService(services, m.ServiceName)
              /\ HasPort(BaseOf(m).Ports, m)
              /\ HasPort(PreviewOf(m).Ports, m)

\* C29: once the select has returned the supervisor cancels the context, then
\* waits for the poller, and initiates the HTTP server's shutdown only when the
\* poller has finished; afterwards no label is polled and no transition
\* handler is called.
C29_ShutdownOrdering ==
    [][/\ (life.sup = "select" /\ life'.sup # "select") => life'.sup = "cancel"
       /\ life'.sup \in {"wait", "shutdown", "drain", "complete"} => ctxCancelled'
       /\ (~life.shutdown /\ life'.shutdown) => (ctxCancelled /\ pc = "done")
       /\ life.shutdown => (polls' = polls /\ nCalls' = nCalls /\ pc' = pc)]_vars

C29_Witness ==
    /\ life.shutdown
    /\ life.took = "server"
    /\ polls > 1
    /\ nCalls > 0

\* a termination signal was delivered or the HTTP server failed
Triggered == life.signalled \/ life.failed

\* C30: under fair scheduling every trigger leads to "watcher shutdown
\* complete" and the return, whatever the interleaving with the poller and
\* the server goroutine.
C30_Termination == Triggered ~> life.sup = "complete"

\* the server had failed, the select took the signal, and the drain received
\* the buffered error
C30_Witness ==
    /\ life.sup = "complete"
    /\ life.took = "signal"
    /\ life.failed
    /\ ~life.serverErr
    /\ life.got

\* C31: the watcher exits zero only on a clean shutdown: when the HTTP server
\* stopped with a non-shutdown error, RunE returns an error and the process
\* exits non-zero.
C31_ExitCode ==
    (life.sup = "complete" /\ life.failed) => ExitCode(life.ret) # 0

\* polls started since the context was cancelled
PollsAfterCancel == polls - life.atCancel

\* C32 as stated: once the context is cancelled Run returns in the end, and
\* at most one further poll starts after the cancellation.
C32_AtMostOnePoll ==
    /\ ctxCancelled ~> pc = "done"
    /\ [](ctxCancelled => PollsAfterCancel <= 1)

\* C32, amended: once the context is cancelled Run returns in the end; the
\* polls started after the cancellation are at most the initial poll if it
\* was still to come, one for a tick already waiting in ticker.C, and one for
\* each tick that entered ticker.C afterwards; none starts once the select
\* took ctx.Done.
C32_Cancellation ==
    /\ ctxCancelled ~> pc = "done"
    /\ [](ctxCancelled => PollsAfterCancel <= life.owed + life.late)
    /\ [][pc = "done" => polls' = polls]_vars

\* the loop polled twice after the cancellation and then returned
C32_Witness ==
    /\ ctxCancelled
    /\ pc = "done"
    /\ PollsAfterCancel = 2
    /\ life.late = 1

\* C33: while the transition handler runs the poller does not hold its lock
\* and last-observed already is the value the handler was called for, so a
\* GetCurrentRole made meanwhile takes the read lock at once and returns the
\* new value.
C33_LockReleased ==
    /\ [](pc = "handler" => (life.mu = "free" /\ lastRole = pending.current))
    /\ [][(pc = "handler" /\ life.readers = 1 /\ life'.readers = 0)
            => life'.role = pending.current]_vars

\* a GetCurrentRole began and returned while the handler was running
C33_Witness ==
    /\ pc = "handler"
    /\ life.during
    /\ life.calls > 0
    /\ life.readers = 0
    /\ life.role = pending.current
    /\ pending.previous # ""

\* C34: the IPv4 probe `-C` is the first command of every add_jump and
\* remove_jump and its result is read three ways.  Present (exit 0): add_jump
\* returns success after the probe alone, remove_jump goes on to the delete.
\* Absent (exit 1): add_jump goes on to the insert, remove_jump issues no
\* IPv4 delete.  Error (any other failure): the call fails with the probe as
\* its only command, both hook chains stay as they were, and the jump manager
\* adds 1 to the iptables error counter and keeps the gauge.
C34_ProbeThreeWay ==
    [][(Invocation /\ lastCall'.cmds # <<>>)
         => LET c == lastCall'
                probeOnly == Len(c.cmds) = 1
                probeFailed == probeOnly /\ c.err
            IN  /\ c.cmds[1] = <<ipv4Binary, "-C">>
                /\ probeFailed
                     => /\ UNCHANGED <<hook4, hook6, jumpState>>
                        /\ errorsTotal' = [errorsTotal EXCEPT
                                             ![metricErrorLabelIptables] = @ + 1]
                /\ (~probeFailed /\ HasJump(hook4) /\ c.op = "add")
                     => (probeOnly /\ ~c.err)
                /\ (~probeFailed /\ HasJump(hook4) /\ c.op = "remove")
                     => (~probeOnly /\ c.cmds[2] = <<ipv4Binary, "-D">>)
                /\ (~probeFailed /\ ~HasJump(hook4) /\ c.op = "add")
                     => (~probeOnly /\ c.cmds[2] = <<ipv4Binary, "-I">>)
                /\ (~probeFailed /\ ~HasJump(hook4) /\ c.op = "remove")
                     => (~c.err /\ (~probeOnly => c.cmds[2][1] = ipv6Binary))]_vars

\* an add_jump whose IPv4 probe failed while the jump was in place and the
\* gauge at 1
C34_Witness ==
    /\ lastCall.op = "add"
    /\ lastCall.err
    /\ lastCall.cmds = << <<ipv4Binary, "-C">> >>
    /\ HasJump(hook4)
    /\ jumpState = 1
    /\ errorsTotal[metricErrorLabelIptables] >= 1

\* C35: remove_jump with dual-stack enabled treats the families one by one.
\* When no invocation fails and each hook chain holds at most one jump, the
\* call probes IPv6 also when the IPv4 jump was absent, deletes the IPv6 jump
\* when it is there, succeeds, and leaves no jump in either hook chain.
C35_RemoveJumpBothFamilies ==
    [][(Called("remove") /\ ipv6 /\ lastCall'.cmds # <<>> /\ lastFault' = NoFault
          /\ JumpCount(hook4) <= 1 /\ JumpCount(hook6) <= 1)
         => /\ ~lastCall'.err
            /\ Issued(lastCall'.cmds, <<ipv6Binary, "-C">>)
            /\ HasJump(hook6) => Issued(lastCall'.cmds, <<ipv6Binary, "-D">>)
            /\ ~HasJump(hook4')
            /\ ~HasJump(hook6')
            /\ hook4' = WithoutJump(hook4)
            /\ hook6' = WithoutJump(hook6)]_vars

\* the IPv4 jump was absent, the IPv6 jump was there and was deleted
C35_Witness ==
    /\ ipv6
    /\ lastCall.op = "remove"
    /\ ~lastCall.err
    /\ lastFault = NoFault
    /\ lastCall.cmds = << <<ipv4Binary, "-C">>, <<ipv6Binary, "-C">>, <<ipv6Binary, "-D">> >>
    /\ ~HasJump(hook4)
    /\ ~HasJump(hook6)
    /\ hook6 # <<>>

\* an ensure_chain call whose IPv4 step succeeded and whose IPv6 probe, flush
\* or create failed
IPv6StepFailed ==
    /\ Called("ensure")
    /\ ipv6
    /\ lastCall'.cmds # <<>>
    /\ ~lastFault'.c4
    /\ ~lastFault'.m4
    /\ lastFault'.c6 \/ lastFault'.m6

BothReturned == \A p \in Procs : life.at[p] = "done"

\* C37: two concurrent add_jump invocations, every tool invocation atomic,
\* end in every interleaving with exactly one jump in the hook chain.
C37_OneJumpAfterRace == BothReturned => JumpCount(hook4) = 1

\* C38: whatever add_jump and remove_jump calls the only writer makes on hook
\* chains that started without a jump, and whichever probes fail, each
\* family's hook chain holds at most one jump.
C38_AtMostOneJump == JumpCount(hook4) <= 1 /\ JumpCount(hook6) <= 1

\* C39: gauge/kernel agreement.  At the supervisor's start and after every
\* completed jump-manager invocation, successful or failed, the jump gauge is
\* 1 exactly when the IPv4 hook chain holds the jump to the private chain (the
\* supervisor being the hook chain's only writer).
C39_GaugeMatchesKernel == (jumpState = 1) <=> HasJump(hook4)

\* C40: after a successful Setup that writes the audit file, the number of
\* records in the file, which is what the supervisor seeds its rule-count gauge
\* with, equals the number of DNAT rules the run appended to the private
\* chains, whatever the mappings' address families and the dual-stack setting.
C40_AuditCountsRules ==
    (run.pc = "returned" /\ run.err = "" /\ cfg.DnatMapPath # "")
        => CountDNATMappings(cfg.DnatMapPath, auditFile).count = run.added

====
